---- MODULE Spec2Model ----
(***************************************************************************)
(* Model of the Nerve management-system client (tttech-nerve/              *)
(* nerve-api-examples): the node-tree walker, the regex/literal filter     *)
(* engine, the list_nodes handler and the node-list reconciler of          *)
(* src/nerve/nodes.py, src/nerve/utils.py and src/commands/list_nodes.py.  *)
(*                                                                         *)
(* Strings that the program matches with regular expressions are           *)
(* sequences of one-character strings (<<"a","b">> is "ab"); strings that  *)
(* are only compared for equality (tree-node types, connection status)     *)
(* are TLA+ strings.  Python's None is the one-element sequence None,      *)
(* which no string over single characters can equal.                      *)
(***************************************************************************)
EXTENDS Integers, Sequences, FiniteSets, TLC

VARIABLES
    cmd,        \* the operation the run executes
    pc,         \* position of the running operation
    args,       \* arguments of the operation (filters, partial list, ...)
    server,     \* what the management system answers to each request
    stack,      \* call frames of the recursive get_children_of
    requests,   \* requests sent by make_request so far, in order
    walk,       \* value returned by create_node_list_and_tree, once it returned
    heap,       \* the node dictionaries the operation holds, by reference
    local,      \* local variables of the running handler
    ret         \* value returned by the operation

vars == <<cmd, pc, args, server, stack, requests, walk, heap, local, ret>>

\* ------------------------------------------------------------------------
\* Bounds of the model
\* ------------------------------------------------------------------------
MaxDevices == 2
MaxFaultTree == 2
MaxTarget == 3      \* longest target string matched by a single pattern
MaxLiteral == 2     \* longest literal filter pattern
MaxBody == 3        \* longest regular expression after the "regex:" prefix
MaxNodes == 2       \* longest node list handed to a filter
MaxTree == 3        \* most tree elements below the root
MaxPartial == 2     \* longest partial node list given to the reconciler
MaxVersions == 2    \* most versions of a workload definition
MaxWorkloads == 2   \* most workloads of the management system
MaxOps == 3         \* most operations made on the session

\* ------------------------------------------------------------------------
\* Python values
\* ------------------------------------------------------------------------
None == <<"<None>">>

\* bool(v) of an optional string: None and "" are falsy
Truthy(v) == v # None /\ v # <<>>

RECURSIVE Join(_, _)
\* sep.join(parts)
Join(sep, parts) ==
    IF parts = <<>> THEN <<>>
    ELSE IF Len(parts) = 1 THEN parts[1]
    ELSE parts[1] \o sep \o Join(sep, Tail(parts))

\* s.startswith(prefix)
StartsWith(s, prefix) ==
    /\ Len(s) >= Len(prefix)
    /\ SubSeq(s, 1, Len(prefix)) = prefix

\* all strings over alphabet cs of length 0..n
StringsUpTo(cs, n) == UNION {[1..k -> cs] : k \in 0..n}

\* ------------------------------------------------------------------------
\* Regular expressions (the part of Python's re the filters use)
\* ------------------------------------------------------------------------
Letter ==
    {"a", "b", "c", "d", "e", "f", "g", "h", "i", "j", "k", "l", "m", "n", "o",
     "p", "q", "r", "s", "t", "u", "v", "w", "x", "y", "z",
     "A", "B", "C", "D", "E", "F", "G", "H", "I", "J", "K", "L", "M", "N", "O",
     "P", "Q", "R", "S", "T", "U", "V", "W", "X", "Y", "Z"}
Digit == {"0", "1", "2", "3", "4", "5", "6", "7", "8", "9"}
\* the characters \w matches
WordChar == Letter \cup Digit \cup {"_"}
\* characters re.escape prefixes with a backslash
EscapedChar == {" ", ".", "*", "[", "]", "-", "\\", "(", ")", "+", "?", "^", "$", "|"}

\* the outcome of re.compile raising re.error
ReError == <<[k |-> "error"]>>

RECURSIVE re_escape(_)
re_escape(s) ==
    IF s = <<>> THEN <<>>
    ELSE (IF Head(s) \in EscapedChar THEN <<"\\", Head(s)>> ELSE <<Head(s)>>)
         \o re_escape(Tail(s))

RECURSIVE re_parse(_, _, _)
\* re.compile: the items of the pattern, or ReError (re.error raised)
re_parse(p, i, acc) ==
    IF i > Len(p) THEN acc
    ELSE LET c == p[i] IN
      CASE c = "\\" ->
             IF i = Len(p) THEN ReError
             ELSE IF p[i + 1] = "b"
                  THEN re_parse(p, i + 2, Append(acc, [k |-> "wb"]))
             ELSE IF p[i + 1] \in WordChar THEN ReError
             ELSE re_parse(p, i + 2, Append(acc, [k |-> "lit", c |-> p[i + 1]]))
        [] c = "." -> re_parse(p, i + 1, Append(acc, [k |-> "any"]))
        [] c = "*" ->
             IF acc = <<>> THEN ReError
             ELSE IF acc[Len(acc)].k \in {"wb", "star"} THEN ReError
             ELSE re_parse(p, i + 1,
                     SubSeq(acc, 1, Len(acc) - 1)
                       \o <<[k |-> "star", of |-> acc[Len(acc)]]>>)
        [] c = "[" -> ReError    \* no "]" in the alphabet: unterminated set
        [] OTHER -> re_parse(p, i + 1, Append(acc, [k |-> "lit", c |-> c]))

re_compile(p) == re_parse(p, 1, <<>>)

\* the item matches the single character ch
ItemTakes(item, ch) ==
    IF item.k = "lit" THEN item.c = ch ELSE item.k = "any"

\* \b at offset pos (0..Len(s)) of s
WordBoundary(s, pos) ==
    LET before == pos >= 1 /\ s[pos] \in WordChar
        after == pos < Len(s) /\ s[pos + 1] \in WordChar
    IN before # after

RECURSIVE MatchFrom(_, _, _, _)
\* the items i.. of the compiled pattern match s from offset pos on
MatchFrom(items, i, s, pos) ==
    IF i > Len(items) THEN TRUE
    ELSE LET it == items[i] IN
      CASE it.k = "wb" -> WordBoundary(s, pos) /\ MatchFrom(items, i + 1, s, pos)
        [] it.k = "star" ->
             \/ MatchFrom(items, i + 1, s, pos)
             \/ /\ pos < Len(s)
                /\ ItemTakes(it.of, s[pos + 1])
                /\ MatchFrom(items, i, s, pos + 1)
        [] OTHER ->
             /\ pos < Len(s)
             /\ ItemTakes(it, s[pos + 1])
             /\ MatchFrom(items, i + 1, s, pos + 1)

\* Pattern.search(s): a match starting at any offset
PatternSearch(compiled, s) == \E pos \in 0..Len(s) : MatchFrom(compiled, 1, s, pos)

\* Pattern.match(s): a match starting at the beginning of s
PatternMatch(compiled, s) == MatchFrom(compiled, 1, s, 0)

RegexPrefix == <<"r", "e", "g", "e", "x", ":">>
MatchAll == <<".", "*">>

\* the pattern text create_regex hands to re.compile
regex_pattern(pattern) ==
    IF pattern = None THEN MatchAll
    ELSE IF StartsWith(pattern, RegexPrefix)
         THEN SubSeq(pattern, Len(RegexPrefix) + 1, Len(pattern))
    ELSE <<"\\", "b">> \o re_escape(pattern) \o <<"\\", "b">>

\* create_regex without the fallback: an invalid pattern stays unusable
create_regex_no_fallback(pattern) == re_compile(regex_pattern(pattern))

create_regex(pattern) ==
    LET compiled == re_compile(regex_pattern(pattern))
    IN IF compiled = ReError THEN re_compile(MatchAll) ELSE compiled

\* create_regex(pattern).search(target): the pattern found anywhere in target
Searches(pattern, target) == PatternSearch(create_regex(pattern), target)

\* create_regex(pattern).match(target), as every filter applies a pattern
Matches(pattern, target) == PatternMatch(create_regex(pattern), target)

\* ------------------------------------------------------------------------
\* Specification SpecMatch: one pattern applied to one target string
\* ------------------------------------------------------------------------
TargetChar == {"a", "b", " "}
LiteralChar == {"a", "b", " "}
BodyChar == {"a", ".", "*", "["}

Targets == StringsUpTo(TargetChar, MaxTarget)
Literals == StringsUpTo(LiteralChar, MaxLiteral)
RegexPatterns == {RegexPrefix \o b : b \in StringsUpTo(BodyChar, MaxBody)}
Patterns == {None} \cup Literals \cup RegexPatterns

Idle == <<>>

MatchInit ==
    /\ cmd = "match"
    /\ pc = "call"
    /\ args \in [pattern : Patterns, target : Targets]
    /\ server = Idle /\ stack = Idle /\ requests = Idle /\ walk = Idle
    /\ heap = Idle /\ local = Idle
    /\ ret = FALSE

\* a filter loop's test "pattern.match(value)" for one pattern and one value
ApplyPattern ==
    /\ cmd = "match" /\ pc = "call"
    /\ ret' = Matches(args.pattern, args.target)
    /\ pc' = "done"
    /\ UNCHANGED <<cmd, args, server, stack, requests, walk, heap, local>>

MatchNext == ApplyPattern

SpecMatch == MatchInit /\ [][MatchNext]_vars

IsLiteral(p) == p # None /\ ~StartsWith(p, RegexPrefix)

\* the text lit stands in s at offset pos with a word boundary on both sides
WholeWordAt(lit, s, pos) ==
    /\ pos + Len(lit) <= Len(s)
    /\ SubSeq(s, pos + 1, pos + Len(lit)) = lit
    /\ WordBoundary(s, pos)
    /\ WordBoundary(s, pos + Len(lit))

\* C3 (as stated): a literal pattern matches a target whenever the literal
\* text occurs anywhere in the target bounded by word boundaries ("abc"
\* matches "xx abc yy"); the match is not anchored at the start of the string.
C3_LiteralMatchesAnywhere ==
    (pc = "done" /\ cmd = "match" /\ IsLiteral(args.pattern)) =>
        (ret <=> \E pos \in 0..Len(args.target) :
                    WholeWordAt(args.pattern, args.target, pos))

\* C3 (amended): a literal pattern matches a target exactly when the literal
\* text stands at the START of the target bounded by word boundaries: "a"
\* matches "a b" and "a", and neither " a", "b a" nor "ab".
C3_LiteralMatchesAtStart ==
    (pc = "done" /\ cmd = "match" /\ IsLiteral(args.pattern)) =>
        (ret <=> WholeWordAt(args.pattern, args.target, 0))

\* the literal "a" was applied to "b a", where it is a whole word further in
C3_Witness ==
    /\ pc = "done" /\ cmd = "match"
    /\ args.pattern = <<"a">> /\ args.target = <<"b", " ", "a">>
    /\ ret = FALSE

\* body is a run of plain letters followed by ".*"; the letters, else None
PlainPrefixOf(body) ==
    IF /\ Len(body) >= 2
       /\ SubSeq(body, Len(body) - 1, Len(body)) = MatchAll
       /\ \A i \in 1..(Len(body) - 2) : body[i] \in Letter
    THEN SubSeq(body, 1, Len(body) - 2)
    ELSE None

\* C4: a 'regex:' pattern is matched against the start of the target:
\* 'regex:<letters>.*' matches exactly the targets that start with <letters>
\* and none in which they only occur later; an absent pattern (None) matches
\* every target, the empty string included.
C4_RegexMatchesAtStart ==
    (pc = "done" /\ cmd = "match") =>
        /\ args.pattern = None => ret
        /\ (/\ args.pattern # None
            /\ StartsWith(args.pattern, RegexPrefix)
            /\ PlainPrefixOf(regex_pattern(args.pattern)) # None) =>
               (ret <=> StartsWith(args.target,
                                   PlainPrefixOf(regex_pattern(args.pattern))))

\* 'regex:a.*' was applied to "ba", which holds "a" but does not start with it
C4_Witness ==
    /\ pc = "done" /\ cmd = "match"
    /\ args.pattern = RegexPrefix \o <<"a", ".", "*">>
    /\ args.target = <<"b", "a">>
    /\ ret = FALSE

\* None was applied to the empty string and matched
C4_WitnessNone ==
    pc = "done" /\ cmd = "match" /\ args.pattern = None /\ args.target = <<>> /\ ret

\* ------------------------------------------------------------------------
\* The filter engine: filter_node_list and filter_node_list_for_wl
\* ------------------------------------------------------------------------
\* d[key] = value of a Python dictionary
SetKey(d, key, value) == (key :> value) @@ d

\* the label loop requiring every label to match
labels_matches_all(label_filter, labels) ==
    \A i \in 1..Len(labels) : Matches(label_filter, Join(<<":">>, labels[i]))

\* the label loop of filter_node_list: some label, as "key:value", matches
labels_matches(label_filter, labels) ==
    \E i \in 1..Len(labels) : Matches(label_filter, Join(<<":">>, labels[i]))

\* the body of filter_node_list's loop: TRUE when the node is appended
NodePasses(name_filter, path_filter, node_version_filter, label_filter, model_filter, node) ==
    /\ Truthy(label_filter) => labels_matches(label_filter, node.labels)
    /\ Matches(name_filter, node.name)
    /\ Matches(path_filter, Join(<<"/">>, node.path))
    /\ Matches(node_version_filter, node.version)
    /\ Matches(model_filter, node.model)

\* filter_node_list: node_list holds references into the heap h
filter_node_list(name_filter, path_filter, node_version_filter, label_filter, model_filter, node_list, h) ==
    SelectSeq(node_list,
              LAMBDA r : NodePasses(name_filter, path_filter, node_version_filter,
                                    label_filter, model_filter, h[r]))

\* the inner loop keeping a workload that satisfies any one predicate
WorkloadPassesAny(name_filter, id_filter, version_name_filter, version_id_filter, status_filter, type_filter, wl) ==
    \/ Matches(name_filter, wl.name)
    \/ Matches(id_filter, wl._id)
    \/ Matches(version_name_filter, wl.version_name)
    \/ Matches(version_id_filter, wl.version_id)
    \/ Matches(status_filter, wl.state)
    \/ Matches(type_filter, wl.type)

\* the body of filter_node_list_for_wl's inner loop: TRUE when wl is appended
WorkloadPasses(name_filter, id_filter, version_name_filter, version_id_filter, status_filter, type_filter, wl) ==
    /\ Matches(name_filter, wl.name)
    /\ Matches(id_filter, wl._id)
    /\ Matches(version_name_filter, wl.version_name)
    /\ Matches(version_id_filter, wl.version_id)
    /\ Matches(status_filter, wl.state)
    /\ Matches(type_filter, wl.type)

RECURSIVE wl_loop(_, _, _, _, _)
\* the outer loop of filter_node_list_for_wl from position i on: the returned
\* list of references and the heap with the retained nodes' workloads replaced
wl_loop(f, node_list, i, filtered_nodes, h) ==
    IF i > Len(node_list) THEN [ret |-> filtered_nodes, heap |-> h]
    ELSE LET r == node_list[i]
             wl_list == SelectSeq(h[r].workloads,
                          LAMBDA wl : WorkloadPasses(f.name_filter, f.id_filter,
                                        f.version_name_filter, f.version_id_filter,
                                        f.status_filter, f.type_filter, wl))
         IN IF Len(wl_list) > 0
            THEN wl_loop(f, node_list, i + 1, Append(filtered_nodes, r),
                         [h EXCEPT ![r] = SetKey(h[r], "workloads", wl_list)])
            ELSE wl_loop(f, node_list, i + 1, filtered_nodes, h)

\* filter_node_list_for_wl assigning the filtered workload list to every node
\* it looks at, retained or not
filter_node_list_for_wl_assign_all(f, node_list, h) ==
    LET out == wl_loop(f, node_list, 1, <<>>, h)
        looked == {node_list[i] : i \in 1..Len(node_list)}
        kept == {out.ret[j] : j \in 1..Len(out.ret)}
    IN [ret |-> out.ret,
        heap |-> [r \in 1..Len(h) |->
                    IF r \in looked \ kept THEN SetKey(h[r], "workloads", <<>>)
                    ELSE out.heap[r]]]

\* filter_node_list_for_wl; f holds the six filters
filter_node_list_for_wl(f, node_list, h) == wl_loop(f, node_list, 1, <<>>, h)

\* ------------------------------------------------------------------------
\* Specification SpecFilter: one call of filter_node_list or of
\* filter_node_list_for_wl on a list of node dictionaries
\* ------------------------------------------------------------------------
sA == <<"a">>
sB == <<"b">>
s1 == <<"1">>
s2 == <<"2">>
sRoot == <<"r", "o", "o", "t">>
sSTARTED == <<"S", "T", "A", "R", "T", "E", "D">>
sSTOPPED == <<"S", "T", "O", "P", "P", "E", "D">>
sDocker == <<"d", "o", "c", "k", "e", "r">>
sVm == <<"v", "m">>
\* a regular expression re.compile rejects
InvalidRegex == RegexPrefix \o <<"[">>

\* all sequences over S of length 0..n
SeqsUpTo(S, n) == UNION {[1..k -> S] : k \in 0..n}

\* the references 1..Len(h) to the objects of heap h, in order
Refs(h) == [i \in 1..Len(h) |-> i]

\* a node dictionary as get_children_of builds it
NodeDict(name, path, version, model, labels) ==
    [_id |-> <<"i">> \o name, name |-> name, serial_number |-> <<"s">> \o name,
     connection_status |-> "online", version |-> version, model |-> model,
     labels |-> labels, path |-> path]

LabelLists == {<<>>, <<<<sA, sB>>>>, <<<<sB, sB>>, <<sA, sB>>>>}

FilterNodes ==
    {NodeDict(sA, <<sRoot>>, s1, sA, ls) : ls \in LabelLists}
      \cup {NodeDict(sB, <<sRoot, sA>>, s2, sB, ls) : ls \in LabelLists}

NodeFilters ==
    [name_filter : {None, <<>>, sA, InvalidRegex},
     path_filter : {None, sRoot \o <<"/">> \o sA, InvalidRegex},
     node_version_filter : {None, s2, InvalidRegex},
     label_filter : {None, <<>>, sA \o <<":">> \o sB, InvalidRegex,
                     RegexPrefix \o <<"b", ".", "*">>},
     model_filter : {None, InvalidRegex}]

WorkloadDict(name, id, state, type) ==
    [name |-> name, type |-> type, _id |-> id, version_id |-> id,
     version_name |-> name, state |-> state, device_id |-> <<"d">> \o id]

wlDocker == WorkloadDict(sA, s1, sSTARTED, sDocker)
wlVm == WorkloadDict(sB, s2, sSTOPPED, sVm)

WorkloadLists ==
    {<<>>, <<wlDocker>>, <<wlVm>>, <<wlDocker, wlVm>>, <<wlVm, wlDocker, wlVm>>}

WlFilterNodes ==
    {SetKey(NodeDict(sA, <<sRoot>>, s1, sA, <<>>), "workloads", wls) :
        wls \in WorkloadLists}

WlFilters ==
    [name_filter : {None, sA},
     id_filter : {None, InvalidRegex},
     version_name_filter : {None, RegexPrefix \o MatchAll},
     version_id_filter : {None, s2},
     status_filter : {None, sSTARTED, RegexPrefix \o <<"S", "T", ".", "*">>},
     type_filter : {None, sDocker}]

FilterInit ==
    /\ pc = "call"
    /\ \/ /\ cmd = "filter_node_list"
          /\ heap \in SeqsUpTo(FilterNodes, MaxNodes)
          /\ \E f \in NodeFilters : args = SetKey(f, "node_list", Refs(heap))
       \/ /\ cmd = "filter_node_list_for_wl"
          /\ heap \in SeqsUpTo(WlFilterNodes, MaxNodes)
          /\ \E f \in WlFilters : args = SetKey(f, "node_list", Refs(heap))
    /\ local = [before |-> heap]
    /\ server = Idle /\ stack = Idle /\ requests = Idle /\ walk = Idle
    /\ ret = <<>>

FilterNodeList ==
    /\ cmd = "filter_node_list" /\ pc = "call"
    /\ ret' = filter_node_list(args.name_filter, args.path_filter,
                               args.node_version_filter, args.label_filter,
                               args.model_filter, args.node_list, heap)
    /\ pc' = "done"
    /\ UNCHANGED <<cmd, args, server, stack, requests, walk, heap, local>>

FilterNodeListForWl ==
    /\ cmd = "filter_node_list_for_wl" /\ pc = "call"
    /\ LET out == filter_node_list_for_wl(args, args.node_list, heap)
       IN /\ ret' = out.ret
          /\ heap' = out.heap
    /\ pc' = "done"
    /\ UNCHANGED <<cmd, args, server, stack, requests, walk, local>>

FilterNext == FilterNodeList \/ FilterNodeListForWl

SpecFilter == FilterInit /\ [][FilterNext]_vars

NodeFilterNames ==
    {"name_filter", "path_filter", "node_version_filter", "label_filter",
     "model_filter"}
WlFilterNames ==
    {"name_filter", "id_filter", "version_name_filter", "version_id_filter",
     "status_filter", "type_filter"}

\* p is a 'regex:' pattern that re.compile rejects
IsInvalid(p) ==
    /\ p # None
    /\ StartsWith(p, RegexPrefix)
    /\ re_compile(regex_pattern(p)) = ReError

\* the result of filter_node_list for arguments a on the nodes as given
NodeFilterResult(a) ==
    filter_node_list(a.name_filter, a.path_filter, a.node_version_filter,
                     a.label_filter, a.model_filter, a.node_list, local.before)

\* the result of filter_node_list_for_wl for arguments a on the nodes as given
WlFilterResult(a) == filter_node_list_for_wl(a, a.node_list, local.before)

\* C5 (as stated): a filter call with an invalid regular expression for one
\* attribute returns the same nodes as the same call with that predicate
\* absent, whichever attribute it is.
C5_InvalidSameAsAbsent ==
    pc = "done" =>
      /\ cmd = "filter_node_list" =>
           \A k \in NodeFilterNames :
              IsInvalid(args[k]) => ret = NodeFilterResult([args EXCEPT ![k] = None])
      /\ cmd = "filter_node_list_for_wl" =>
           \A k \in WlFilterNames :
              IsInvalid(args[k]) =>
                 /\ ret = WlFilterResult([args EXCEPT ![k] = None]).ret
                 /\ heap = WlFilterResult([args EXCEPT ![k] = None]).heap

\* C5 (amended): an invalid regular expression never raises and degrades to
\* a pattern that matches every input; for the name, path, version and model
\* predicates and for every workload predicate the call returns the same
\* nodes as with that predicate absent, and for the label predicate it
\* returns those of them that carry at least one label.
C5_InvalidDegradesToMatchAll ==
    pc = "done" =>
      /\ cmd = "filter_node_list" =>
           \A k \in NodeFilterNames :
              IsInvalid(args[k]) =>
                 ret = IF k = "label_filter"
                       THEN SelectSeq(NodeFilterResult([args EXCEPT ![k] = None]),
                                      LAMBDA r : local.before[r].labels # <<>>)
                       ELSE NodeFilterResult([args EXCEPT ![k] = None])
      /\ cmd = "filter_node_list_for_wl" =>
           \A k \in WlFilterNames :
              IsInvalid(args[k]) =>
                 /\ ret = WlFilterResult([args EXCEPT ![k] = None]).ret
                 /\ heap = WlFilterResult([args EXCEPT ![k] = None]).heap

\* invalid name and label patterns were applied to a node with labels and a
\* node without: only the one with labels is returned
C5_Witness ==
    /\ pc = "done" /\ cmd = "filter_node_list"
    /\ args.name_filter = InvalidRegex /\ args.label_filter = InvalidRegex
    /\ args.path_filter = None /\ args.node_version_filter = None
    /\ args.model_filter = None
    /\ Len(args.node_list) = 2
    /\ heap[1].labels = <<>> /\ heap[2].labels # <<>>
    /\ ret = <<2>>

\* what C6 requires of a retained node
C6_Retained(node) ==
    /\ Matches(args.name_filter, node.name)
    /\ Matches(args.path_filter, Join(<<"/">>, node.path))
    /\ Matches(args.node_version_filter, node.version)
    /\ Matches(args.model_filter, node.model)
    /\ Truthy(args.label_filter) =>
          \E i \in 1..Len(node.labels) :
             Matches(args.label_filter,
                     node.labels[i][1] \o <<":">> \o node.labels[i][2])

\* C6: filter_node_list retains a node if and only if the name, '/'-joined
\* path, version and model predicates match it (an absent predicate matches
\* everything) and, when a label predicate is supplied (a non-empty string),
\* at least one of its labels rendered as 'key:value' matches; a node with no
\* labels is never retained under a label predicate; the output is the
\* subsequence of the input list made of the retained nodes, in input order.
C6_NodeFilterRetains ==
    (pc = "done" /\ cmd = "filter_node_list") =>
      /\ ret = SelectSeq(args.node_list, LAMBDA r : C6_Retained(heap[r]))
      /\ Truthy(args.label_filter) =>
            \A i \in 1..Len(ret) : heap[ret[i]].labels # <<>>

\* the label predicate "a:b" kept the node whose second label is a:b and
\* dropped the node without labels, which every other predicate accepts
C6_Witness ==
    /\ pc = "done" /\ cmd = "filter_node_list"
    /\ args.label_filter = sA \o <<":">> \o sB
    /\ args.name_filter = None
    /\ Len(args.node_list) = 2
    /\ heap[1].labels = <<>>
    /\ heap[2].labels = <<<<sB, sB>>, <<sA, sB>>>>
    /\ ret = <<2>>

\* what C7 requires of a workload that stays
C7_Satisfies(wl) ==
    /\ Matches(args.name_filter, wl.name)
    /\ Matches(args.id_filter, wl._id)
    /\ Matches(args.version_name_filter, wl.version_name)
    /\ Matches(args.version_id_filter, wl.version_id)
    /\ Matches(args.status_filter, wl.state)
    /\ Matches(args.type_filter, wl.type)

\* C7: filter_node_list_for_wl retains a node if and only if at least one of
\* its workloads satisfies all supplied workload predicates, and afterwards
\* the 'workloads' of every retained node is exactly the subsequence of its
\* original workloads that satisfy all predicates.
C7_WlFilterRetains ==
    (pc = "done" /\ cmd = "filter_node_list_for_wl") =>
      /\ ret = SelectSeq(args.node_list,
                  LAMBDA r : \E i \in 1..Len(local.before[r].workloads) :
                                C7_Satisfies(local.before[r].workloads[i]))
      /\ \A j \in 1..Len(ret) :
            heap[ret[j]].workloads =
               SelectSeq(local.before[ret[j]].workloads, C7_Satisfies)

\* workloads [docker/STARTED, vm/STOPPED] filtered by status=STARTED: the
\* node is retained and only the docker entry is left
C7_Witness ==
    /\ pc = "done" /\ cmd = "filter_node_list_for_wl"
    /\ args.status_filter = sSTARTED
    /\ args.name_filter = None /\ args.id_filter = None /\ args.type_filter = None
    /\ args.version_name_filter = None /\ args.version_id_filter = None
    /\ Len(args.node_list) = 1
    /\ local.before[1].workloads = <<wlDocker, wlVm>>
    /\ ret = <<1>>
    /\ heap[1].workloads = <<wlDocker>>

\* ------------------------------------------------------------------------
\* Exceptions and the checks that raise them
\* ------------------------------------------------------------------------
\* an exception leaving the function, with the keys its message names
Raised(exception, keys) == [ok |-> FALSE, exception |-> exception, keys |-> keys]

\* a value returned
Returned(value) == [ok |-> TRUE, value |-> value]

\* complainIfKeysAreNotInDict: the missing keys, in the order asked
missing_keys(d, keys) == SelectSeq(keys, LAMBDA key : key \notin DOMAIN d)

\* dictionary d without key
Without(d, key) == [k \in DOMAIN d \ {key} |-> d[k]]

\* ------------------------------------------------------------------------
\* The management system's node tree, as the tree-node requests expose it
\* ------------------------------------------------------------------------
\* The tree elements below the root are 1..tree.n, the root is element 0;
\* every children array lists the elements of one parent by ascending id.
RootId == 0
ContainerTypes == {"folder", "unassigned"}

\* the ascending sequence of the finite set S of numbers
RECURSIVE Ascending(_)
Ascending(S) ==
    IF S = {} THEN <<>>
    ELSE LET m == CHOOSE x \in S : \A y \in S : x <= y
         IN <<m>> \o Ascending(S \ {m})

\* the 'device' sub-record the API attaches to tree element i of type node
DeviceOf(tree, i) ==
    [serialNumber |-> tree.serial[i],
     connectionStatus |-> tree.status[i],
     currentFWVersion |-> tree.version[i],
     model |-> tree.model[i],
     labels |-> tree.labels[i]]

\* tree element i as an entry of a children array
ElemOf(tree, i) ==
    LET e == [_id |-> i, name |-> tree.name[i], type |-> tree.type[i]]
    IN IF tree.type[i] = "node" THEN SetKey(e, "device", DeviceOf(tree, i)) ELSE e

\* what is wrong with the answers of the management system, if anything: a
\* request that fails, or a response lacking what the walker reads
NoFault == [kind |-> "none", at |-> 0, key |-> "none"]
FaultOf(tree) == IF "fault" \in DOMAIN tree THEN tree.fault ELSE NoFault

\* the request sent as the k-th of the run gets an error response
RequestFails(tree, k) == FaultOf(tree).kind = "request_fails" /\ FaultOf(tree).at = k

\* tree element i as the management system sends it
Served(tree, i) ==
    LET f == FaultOf(tree)
        e == ElemOf(tree, i)
    IN IF f.at # i THEN e
       ELSE IF f.kind = "child_lacks" THEN Without(e, f.key)
       ELSE IF f.kind = "no_device" /\ "device" \in DOMAIN e THEN Without(e, "device")
       ELSE IF f.kind = "device_lacks" /\ "device" \in DOMAIN e
       THEN SetKey(e, "device", Without(e.device, f.key))
       ELSE e

\* the children array of the elements whose parent is in the set ps
ChildrenArray(tree, ps) ==
    LET ids == Ascending({i \in 1..tree.n : tree.parent[i] \in ps})
    IN [k \in 1..Len(ids) |-> Served(tree, ids[k])]

\* response of GET /nerve/tree-node/type/root
RootResponse(tree) ==
    LET f == FaultOf(tree)
        root == [_id |-> RootId, name |-> sRoot, type |-> "root"]
    IN IF f.kind = "root_empty" THEN <<>>
       ELSE IF f.kind = "root_lacks" THEN <<Without(root, f.key)>>
       ELSE IF f.kind = "root_type" THEN <<SetKey(root, "type", "node")>>
       ELSE <<root>>

\* response of GET /nerve/tree-node/parent/{_id}
ParentResponse(tree, id) == ChildrenArray(tree, {id})

\* response of GET /nerve/tree-node/child-type/unassigned
UnassignedResponse(tree) ==
    ChildrenArray(tree, {i \in 1..tree.n : tree.type[i] = "unassigned"})

\* ------------------------------------------------------------------------
\* The tree walker: create_node_list_and_tree and get_children_of
\* ------------------------------------------------------------------------
\* Python's None where a dictionary is expected
NoDict == [none |-> TRUE]

\* dict.get(key)
DictGet(d, key) == IF key \in DOMAIN d THEN d[key] ELSE None

\* create_device_label_list: the test "id in ids" holds for every id
create_device_label_list(ids, ms_labels) ==
    [k \in 1..Len(ids) |-> DictGet(ms_labels, ids[k])]

\* the node dictionary keeping the node's own name in its path
node_entry_full_path(child_dict, device, ms_labels) ==
    [_id |-> child_dict._id,
     name |-> child_dict.name,
     serial_number |-> device.serialNumber,
     connection_status |-> device.connectionStatus,
     version |-> device.currentFWVersion,
     model |-> device.model,
     labels |-> IF ms_labels # NoDict
                THEN create_device_label_list(device.labels, ms_labels)
                ELSE <<>>,
     path |-> child_dict.path]

\* the node dictionary get_children_of appends for a child of type node
node_entry(child_dict, device, ms_labels) ==
    [_id |-> child_dict._id,
     name |-> child_dict.name,
     serial_number |-> device.serialNumber,
     connection_status |-> device.connectionStatus,
     version |-> device.currentFWVersion,
     model |-> device.model,
     labels |-> IF ms_labels # NoDict
                THEN create_device_label_list(device.labels, ms_labels)
                ELSE <<>>,
     path |-> SubSeq(child_dict.path, 1, Len(child_dict.path) - 1)]

\* the nodes of a subfolder put in front of the nodes found so far
extend_front(node_list, nodes) == nodes \o node_list

\* node_list.extend(nodes)
extend(node_list, nodes) == node_list \o nodes

\* the child_dict get_children_of builds for child under the path of frame
child_dict_of(frame, child) ==
    [_id |-> child._id, name |-> child.name, type |-> child.type,
     path |-> Append(frame.path, child.name)]

\* a new call frame of get_children_of, before its request
CallFrame(id, type, path) ==
    [fn |-> "get_children_of", st |-> "request", id |-> id, type |-> type,
     path |-> path, data |-> <<>>, idx |-> 1, children |-> <<>>,
     node_list |-> <<>>]

\* the ms_labels argument at each call site of the tree walker
MsLabelsArg ==
    CASE cmd = "create_node_list_and_tree" -> args.ms_labels
      [] cmd = "list_nodes" -> local.ms_labels
      [] OTHER -> NoDict

\* the deepest call stack the interpreter allows before RecursionError: no
\* tree of the model needs more
RecursionLimit == MaxTree + 2

\* the keys every child must carry, and those of the device of a node, in
\* the order get_children_of reads them
ChildKeys == <<"_id", "name", "type">>
DeviceKeys == <<"serialNumber", "labels", "connectionStatus", "currentFWVersion", "model">>

\* an exception raised in the walker leaves every frame of it
Raise(exception, keys) ==
    /\ pc' = "error"
    /\ ret' = Raised(exception, keys)
    /\ stack' = <<>>

Top == stack[Len(stack)]
Below == stack[Len(stack) - 1]
\* the stack with its top frame replaced by f
WithTop(f) == [stack EXCEPT ![Len(stack)] = f]

\* create_node_list_and_tree up to its call of get_children_of
WalkRoot ==
    /\ pc = "walk" /\ stack = <<>>
    /\ requests' = Append(requests, <<"root">>)
    /\ IF RequestFails(server, Len(requests) + 1)
       THEN Raise("ActionUnsuccessful", <<>>)
       ELSE IF Len(RootResponse(server)) = 0
       THEN Raise("IndexError", <<>>)
       ELSE LET data == RootResponse(server)[1] IN
              IF missing_keys(data, ChildKeys) # <<>>
              THEN Raise("DataNotAsExpected", missing_keys(data, ChildKeys))
              ELSE /\ stack' = <<[fn |-> "create_node_list_and_tree", data |-> data],
                                 CallFrame(data._id, data.type, <<sRoot>>)>>
                   /\ UNCHANGED <<pc, ret>>
    /\ UNCHANGED <<cmd, args, server, walk, heap, local>>

\* get_children_of: the request for the children array
WalkRequest ==
    /\ pc = "walk" /\ stack # <<>>
    /\ Top.fn = "get_children_of" /\ Top.st = "request"
    /\ IF Top.type \notin {"folder", "root", "unassigned"}
       THEN Raise("ValueError", <<>>) /\ UNCHANGED requests
       ELSE LET byParent == Top.type \in {"folder", "root"}
                data == IF byParent THEN ParentResponse(server, Top.id)
                        ELSE UnassignedResponse(server)
            IN /\ requests' = Append(requests,
                     IF byParent THEN <<"parent", Top.id>> ELSE <<"unassigned">>)
               /\ IF RequestFails(server, Len(requests) + 1)
                  THEN Raise("Exception", <<>>)
                  ELSE /\ stack' = WithTop([Top EXCEPT !.st = "loop", !.data = data])
                       /\ UNCHANGED <<pc, ret>>
    /\ UNCHANGED <<cmd, args, server, walk, heap, local>>

\* child carries its keys and is a folder or the unassigned bucket
IsContainer(child) ==
    missing_keys(child, ChildKeys) = <<>> /\ child.type \in ContainerTypes

\* get_children_of: a loop pass for a folder or unassigned child, up to the
\* recursive call
WalkDescend ==
    /\ pc = "walk" /\ stack # <<>>
    /\ Top.fn = "get_children_of" /\ Top.st = "loop"
    /\ Top.idx <= Len(Top.data)
    /\ IsContainer(Top.data[Top.idx])
    /\ LET cd == child_dict_of(Top, Top.data[Top.idx])
       IN IF Len(stack) >= RecursionLimit
          THEN Raise("RecursionError", <<>>)
          ELSE /\ stack' = Append(stack, CallFrame(cd._id, cd.type, cd.path))
               /\ UNCHANGED <<pc, ret>>
    /\ UNCHANGED <<cmd, args, server, requests, walk, heap, local>>

\* get_children_of: a whole loop pass for a child that is no container
WalkLeaf ==
    /\ pc = "walk" /\ stack # <<>>
    /\ Top.fn = "get_children_of" /\ Top.st = "loop"
    /\ Top.idx <= Len(Top.data)
    /\ ~IsContainer(Top.data[Top.idx])
    /\ LET child == Top.data[Top.idx] IN
         IF missing_keys(child, ChildKeys) # <<>>
         THEN Raise("DataNotAsExpected", missing_keys(child, ChildKeys))
         ELSE IF child.type = "node" /\ "device" \notin DOMAIN child
         THEN Raise("KeyError", <<"device">>)
         ELSE IF child.type = "node" /\ missing_keys(child.device, DeviceKeys) # <<>>
         THEN Raise("KeyError", <<Head(missing_keys(child.device, DeviceKeys))>>)
         ELSE LET cd == child_dict_of(Top, child)
              IN /\ stack' = WithTop(
                      [Top EXCEPT
                         !.children = Append(@, cd),
                         !.node_list =
                             IF child.type = "node"
                             THEN Append(@, node_entry(cd, child.device, MsLabelsArg))
                             ELSE @,
                         !.idx = @ + 1])
                 /\ UNCHANGED <<pc, ret>>
    /\ UNCHANGED <<cmd, args, server, requests, walk, heap, local>>

\* get_children_of returns to the loop pass of its caller, which finishes
WalkReturn ==
    /\ pc = "walk" /\ Len(stack) >= 2
    /\ Top.fn = "get_children_of" /\ Top.st = "loop"
    /\ Top.idx > Len(Top.data)
    /\ Below.fn = "get_children_of"
    /\ LET cd == SetKey(child_dict_of(Below, Below.data[Below.idx]),
                        "children", Top.children)
           caller == [Below EXCEPT
                        !.node_list = extend(@, Top.node_list),
                        !.children = Append(@, cd),
                        !.idx = @ + 1]
       IN stack' = Append(SubSeq(stack, 1, Len(stack) - 2), caller)
    /\ UNCHANGED <<cmd, pc, args, server, requests, walk, heap, local, ret>>

\* the value create_node_list_and_tree returns
WalkResult ==
    [tree |-> [_id |-> Below.data._id, name |-> Below.data.name,
               type |-> Below.data.type, children |-> Top.children],
     node_list |-> Top.node_list]

\* the outermost get_children_of has returned to create_node_list_and_tree
WalkReturnsToCaller ==
    /\ pc = "walk" /\ Len(stack) = 2
    /\ Top.fn = "get_children_of" /\ Top.st = "loop"
    /\ Top.idx > Len(Top.data)
    /\ Below.fn = "create_node_list_and_tree"

\* create_node_list_and_tree called on its own
WalkFinish ==
    /\ cmd = "create_node_list_and_tree"
    /\ WalkReturnsToCaller
    /\ walk' = WalkResult
    /\ ret' = <<WalkResult.tree, WalkResult.node_list>>
    /\ stack' = <<>>
    /\ pc' = "done"
    /\ UNCHANGED <<cmd, args, server, requests, heap, local>>

\* ------------------------------------------------------------------------
\* Specification SpecWalk: create_node_list_and_tree on every tree of at
\* most MaxTree elements below the root
\* ------------------------------------------------------------------------
TreeNames == {sA, sB}
TreeTypes == {"folder", "node", "unassigned"}

\* a digit character for a small number
DigitOf(i) == <<"0", "1", "2", "3", "4", "5", "6", "7", "8", "9">>[i + 1]

\* the trees with n elements below the root: every parent is the root or an
\* earlier container, and there is at most one unassigned bucket
TreesOfSize(n) ==
    {[n |-> n, parent |-> p, type |-> t, name |-> nm,
      serial |-> [i \in 1..n |-> <<"s", DigitOf(i)>>],
      status |-> [i \in 1..n |-> IF i % 2 = 1 THEN "online" ELSE "offline"],
      version |-> [i \in 1..n |-> s1],
      model |-> [i \in 1..n |-> sA],
      labels |-> [i \in 1..n |-> IF i % 2 = 0 THEN <<"l1">> ELSE <<>>]] :
       p \in {q \in [1..n -> 0..n] : \A i \in 1..n : q[i] < i},
       t \in [1..n -> TreeTypes],
       nm \in [1..n -> TreeNames]}

WellFormedTree(tree) ==
    /\ \A i \in 1..tree.n :
          tree.parent[i] = RootId \/ tree.type[tree.parent[i]] \in ContainerTypes
    /\ Cardinality({i \in 1..tree.n : tree.type[i] = "unassigned"}) <= 1

Trees == UNION {{tr \in TreesOfSize(n) : WellFormedTree(tr)} : n \in 0..MaxTree}

\* the label dictionary get_labels returns
LabelDict == [l1 |-> <<sA, sB>>]

WalkInit ==
    /\ cmd = "create_node_list_and_tree"
    /\ pc = "walk"
    /\ server \in Trees
    /\ args \in [ms_labels : {NoDict, LabelDict}]
    /\ stack = <<>> /\ requests = <<>>
    /\ walk = Idle /\ heap = Idle /\ local = Idle /\ ret = Idle

WalkNext ==
    \/ WalkRoot
    \/ WalkRequest
    \/ WalkDescend
    \/ WalkLeaf
    \/ WalkReturn
    \/ WalkFinish

SpecWalk == WalkInit /\ [][WalkNext]_vars

RECURSIVE PathTo(_, _)
\* 'root' followed by the names of the containers from the root down to
\* element j (the root itself for j = RootId)
PathTo(tree, j) ==
    IF j = RootId THEN <<sRoot>>
    ELSE Append(PathTo(tree, tree.parent[j]), tree.name[j])

LeafNodes(tree) == {i \in 1..tree.n : tree.type[i] = "node"}

\* C1: for every finite acyclic remote tree, create_node_list_and_tree
\* returns a flat node list whose length is the number of type='node' leaves
\* of the tree; every entry mirrors a node leaf (no folder, root or unassigned
\* bucket), each leaf once; the path of every node is the sequence of
\* container names from 'root' down to its parent, without the node's own
\* name as a further last segment.
C1_NodeListMirrorsLeaves ==
    (pc = "done" /\ cmd = "create_node_list_and_tree") =>
      LET nl == walk.node_list IN
        /\ Len(nl) = Cardinality(LeafNodes(server))
        /\ {nl[k]._id : k \in 1..Len(nl)} = LeafNodes(server)
        /\ \A k \in 1..Len(nl) :
              /\ nl[k].name = server.name[nl[k]._id]
              /\ nl[k].path = PathTo(server, server.parent[nl[k]._id])
              /\ Append(nl[k].path, nl[k].name) = PathTo(server, nl[k]._id)

\* a folder "a" holding a node "a", and a node "b" under the root: two list
\* entries for three tree elements, with paths root/a and root
C1_Witness ==
    /\ pc = "done" /\ cmd = "create_node_list_and_tree"
    /\ server.n = 3
    /\ server.type = <<"folder", "node", "node">>
    /\ server.parent = <<0, 1, 0>>
    /\ Len(walk.node_list) = 2
    /\ walk.node_list[1].name = sA /\ walk.node_list[1].path = <<sRoot, sA>>
    /\ walk.node_list[2].name = sB /\ walk.node_list[2].path = <<sRoot>>

RECURSIVE DepthFirst(_, _)
\* the node leaves met by a depth-first walk over the siblings ids, each
\* container's subtree at the container's place
DepthFirst(tree, ids) ==
    IF ids = <<>> THEN <<>>
    ELSE LET i == Head(ids)
             below == Ascending({j \in 1..tree.n : tree.parent[j] = i})
         IN (IF tree.type[i] = "node" THEN <<i>> ELSE DepthFirst(tree, below))
            \o DepthFirst(tree, Tail(ids))

\* C2: the flat node list is in depth-first order following the children
\* arrays as the API returned them: a folder's whole subtree is emitted at
\* the folder's position among its siblings, and nothing is sorted.
C2_DepthFirstOrder ==
    (pc = "done" /\ cmd = "create_node_list_and_tree") =>
      [k \in 1..Len(walk.node_list) |-> walk.node_list[k]._id]
         = DepthFirst(server, Ascending({j \in 1..server.n :
                                            server.parent[j] = RootId}))

\* the children array of the root is [folder 1, node 2 "a"] and folder 1
\* holds node 3 "b": the list is [3, 2], neither by id nor by name
C2_Witness ==
    /\ pc = "done" /\ cmd = "create_node_list_and_tree"
    /\ server.n = 3
    /\ server.type = <<"folder", "node", "node">>
    /\ server.parent = <<0, 0, 1>>
    /\ server.name[2] = sA /\ server.name[3] = sB
    /\ Len(walk.node_list) = 2
    /\ walk.node_list[1]._id = 3 /\ walk.node_list[2]._id = 2

\* ------------------------------------------------------------------------
\* The device record decoder of get_deployed_workloads_from_node
\* ------------------------------------------------------------------------
\* A JSON value whose type the decoder tests is a record with one field
\* naming the type: [list |-> <<...>>] is a list, [str |-> ...] a string;
\* the text of a JSON document is [json |-> value], any other text is
\* [text |-> ...].
sIDLE == <<"I", "D", "L", "E">>

\* service.get("property_list")[index]
property_at(service, index) ==
    IF "property_list" \notin DOMAIN service THEN Raised("TypeError", <<>>)
    ELSE IF index + 1 > Len(service.property_list) THEN Raised("IndexError", <<>>)
    ELSE Returned(service.property_list[index + 1])

\* json.loads of the text of the first property's value
json_loads(value_as_string) ==
    IF "json" \in DOMAIN value_as_string THEN Returned(value_as_string.json)
    ELSE Raised("JSONDecodeError", <<>>)

\* options[value] with Python's indexing: a negative value counts from the end
list_index(options, value) ==
    IF 0 <= value /\ value < Len(options) THEN Returned(options[value + 1])
    ELSE IF 0 - Len(options) <= value /\ value < 0
    THEN Returned(options[Len(options) + value + 1])
    ELSE Raised("IndexError", <<>>)

\* lines 208-220: the ids in the first property of the first service
decode_ids(service_list) ==
    LET property == property_at(service_list[1], 0) IN
      IF ~property.ok THEN property
      ELSE IF missing_keys(property.value, <<"value">>) # <<>>
      THEN Raised("DataNotAsExpected", missing_keys(property.value, <<"value">>))
      ELSE LET value == json_loads(property.value.value)
               wanted == <<"workloadId", "versionId", "workloadVersionName">>
           IN IF ~value.ok THEN value
              ELSE IF missing_keys(value.value, wanted) # <<>>
              THEN Raised("DataNotAsExpected", missing_keys(value.value, wanted))
              ELSE Returned(value.value)

\* the decoder taking the state from the first option whatever the value
decode_state_first_option(service_list) ==
    LET property == property_at(service_list[2], 2)
        wanted == <<"name", "options", "value">>
    IN IF ~property.ok THEN property
       ELSE IF missing_keys(property.value, wanted) # <<>>
       THEN Raised("DataNotAsExpected", missing_keys(property.value, wanted))
       ELSE IF property.value.name # "State"
       THEN Raised("ActionUnsuccessful", <<>>)
       ELSE IF "list" \notin DOMAIN property.value.options
       THEN Raised("DataNotAsExpected", <<>>)
       ELSE list_index(property.value.options.list, 0)

\* lines 222-235: the state in the third property of the second service
decode_state(service_list) ==
    LET property == property_at(service_list[2], 2)
        wanted == <<"name", "options", "value">>
    IN IF ~property.ok THEN property
       ELSE IF missing_keys(property.value, wanted) # <<>>
       THEN Raised("DataNotAsExpected", missing_keys(property.value, wanted))
       ELSE IF property.value.name # "State"
       THEN Raised("ActionUnsuccessful", <<>>)
       ELSE IF "list" \notin DOMAIN property.value.options
       THEN Raised("DataNotAsExpected", <<>>)
       ELSE list_index(property.value.options.list, property.value.value)

\* the decoder accepting any number of services from two on
decode_device_two_or_more(wl) ==
    LET wanted == <<"device_name", "device_model_name", "service_list">> IN
      IF missing_keys(wl, wanted) # <<>>
      THEN Raised("DataNotAsExpected", missing_keys(wl, wanted))
      ELSE IF Len(wl.service_list) < 2 THEN Raised("ActionUnsuccessful", <<>>)
      ELSE LET ids == decode_ids(wl.service_list)
               state == decode_state(wl.service_list)
           IN IF ~ids.ok THEN ids
              ELSE IF ~state.ok THEN state
              ELSE Returned([name |-> wl.device_name,
                             type |-> wl.device_model_name,
                             _id |-> ids.value.workloadId,
                             version_id |-> ids.value.versionId,
                             version_name |-> ids.value.workloadVersionName,
                             state |-> state.value,
                             device_id |-> DictGet(wl, "id")])

\* one pass of the loop of get_deployed_workloads_from_node (lines 196-246):
\* the deployed_wl_info of raw record wl, or the exception raised
decode_device(wl) ==
    LET wanted == <<"device_name", "device_model_name", "service_list">> IN
      IF missing_keys(wl, wanted) # <<>>
      THEN Raised("DataNotAsExpected", missing_keys(wl, wanted))
      ELSE IF Len(wl.service_list) # 2 THEN Raised("ActionUnsuccessful", <<>>)
      ELSE LET ids == decode_ids(wl.service_list)
               state == decode_state(wl.service_list)
           IN IF ~ids.ok THEN ids
              ELSE IF ~state.ok THEN state
              ELSE Returned([name |-> wl.device_name,
                             type |-> wl.device_model_name,
                             _id |-> ids.value.workloadId,
                             version_id |-> ids.value.versionId,
                             version_name |-> ids.value.workloadVersionName,
                             state |-> state.value,
                             device_id |-> DictGet(wl, "id")])

RECURSIVE decode_devices(_, _, _)
\* the loop of get_deployed_workloads_from_node over data from position i
\* on: the first exception ends it
decode_devices(data, i, wl_list) ==
    IF i > Len(data) THEN Returned(wl_list)
    ELSE LET deployed_wl_info == decode_device(data[i])
         IN IF ~deployed_wl_info.ok THEN deployed_wl_info
            ELSE decode_devices(data, i + 1, Append(wl_list, deployed_wl_info.value))

\* the display strings of the State property, as the management system
\* lists them
StateOptions == <<sIDLE, sSTARTED, sSTOPPED>>

\* the raw device record the management system sends for a deployed workload
RawDevice(w) ==
    [id |-> w.device_id,
     device_name |-> w.name,
     device_model_name |-> w.type,
     service_list |->
       <<[property_list |->
            <<[value |-> [json |-> [workloadId |-> w._id,
                                    versionId |-> w.version_id,
                                    workloadVersionName |-> w.version_name]]]>>],
         [property_list |->
            <<[name |-> "Name"], [name |-> "Type"],
              [name |-> "State",
               options |-> [list |-> StateOptions],
               value |-> (CHOOSE k \in 1..Len(StateOptions) :
                             StateOptions[k] = w.state) - 1]>>]>>]

\* the devices response for a list of deployed workloads
RawDevices(wls) == [k \in 1..Len(wls) |-> RawDevice(wls[k])]

\* ------------------------------------------------------------------------
\* The list_nodes command: handle_list_nodes
\* ------------------------------------------------------------------------
\* what get_deployed_workloads_from_node returns for the node with this
\* serial number: the decoded entries of the devices response
get_deployed_workloads_from_node(tree, serialNumber) ==
    decode_devices(
        RawDevices(tree.deployed[CHOOSE i \in 1..tree.n : tree.serial[i] = serialNumber]),
        1, <<>>).value

\* the test of handle_list_nodes for "any workload filter specified"
AnyWorkloadFilter(a) ==
    \/ Truthy(a.workload_name)
    \/ Truthy(a.workload_id)
    \/ Truthy(a.workload_version_name)
    \/ Truthy(a.workload_version_id)
    \/ Truthy(a.workload_status)
    \/ Truthy(a.workload_type)

\* the keyword arguments handle_list_nodes gives filter_node_list_for_wl
WlFilterArgs(a) ==
    [name_filter |-> a.workload_name,
     id_filter |-> a.workload_id,
     version_name_filter |-> a.workload_version_name,
     version_id_filter |-> a.workload_version_id,
     status_filter |-> a.workload_status,
     type_filter |-> a.workload_type]

\* the workload filter applied whether or not a workload filter is given
filtered_for_wl_always(a, online_nodes, h) ==
    filter_node_list_for_wl(WlFilterArgs(a), online_nodes, h)

\* filtered_for_wl of handle_list_nodes, and the heap after computing it
filtered_for_wl(a, online_nodes, h) ==
    IF AnyWorkloadFilter(a)
    THEN filter_node_list_for_wl(WlFilterArgs(a), online_nodes, h)
    ELSE [ret |-> online_nodes, heap |-> h]

\* get_labels: the label dictionary of the management system
ListGetLabels ==
    /\ cmd = "list_nodes" /\ pc = "labels"
    /\ requests' = Append(requests, <<"labels">>)
    /\ local' = [local EXCEPT !.ms_labels = server.label_dict]
    /\ pc' = "walk"
    /\ UNCHANGED <<cmd, args, server, stack, walk, heap, ret>>

\* create_node_list has returned; the node filters are applied
ListFilterNodes ==
    /\ cmd = "list_nodes"
    /\ WalkReturnsToCaller
    /\ walk' = WalkResult
    /\ heap' = WalkResult.node_list
    /\ local' = [local EXCEPT
                   !.filtered_list =
                       filter_node_list(args.node_name, args.node_path,
                                        args.node_version, args.node_labels,
                                        args.node_model, Refs(heap'), heap'),
                   !.index = 1]
    /\ stack' = <<>>
    /\ pc' = "fetch"
    /\ UNCHANGED <<cmd, args, server, requests, ret>>

\* one pass of the loop that adds the workloads of the online nodes
ListFetchWorkloads ==
    /\ cmd = "list_nodes" /\ pc = "fetch"
    /\ local.index <= Len(local.filtered_list)
    /\ LET r == local.filtered_list[local.index]
       IN IF heap[r].connection_status = "online"
          THEN /\ requests' = Append(requests, <<"devices", heap[r].serial_number>>)
               /\ heap' = [heap EXCEPT ![r] =
                             SetKey(@, "workloads",
                                    get_deployed_workloads_from_node(
                                        server, heap[r].serial_number))]
               /\ local' = [local EXCEPT !.online_nodes = Append(@, r),
                                         !.index = @ + 1]
          ELSE /\ local' = [local EXCEPT !.offline_nodes = Append(@, r),
                                         !.index = @ + 1]
               /\ UNCHANGED <<requests, heap>>
    /\ UNCHANGED <<cmd, pc, args, server, stack, walk, ret>>

\* the workload filters, if any, and the nodes added to the result file
ListFinish ==
    /\ cmd = "list_nodes" /\ pc = "fetch"
    /\ local.index > Len(local.filtered_list)
    /\ LET out == filtered_for_wl(args, local.online_nodes, heap)
       IN /\ ret' = out.ret
          /\ heap' = out.heap
    /\ pc' = "done"
    /\ UNCHANGED <<cmd, args, server, stack, requests, walk, local>>

\* ------------------------------------------------------------------------
\* Specification SpecList: handle_list_nodes on flat trees of at most
\* MaxNodes nodes
\* ------------------------------------------------------------------------
ListWorkloadLists == {<<>>, <<wlDocker>>, <<wlDocker, wlVm>>}

ListServers ==
    UNION {
      {[n |-> n,
        parent |-> [i \in 1..n |-> RootId],
        type |-> [i \in 1..n |-> "node"],
        name |-> [i \in 1..n |-> IF i % 2 = 1 THEN sA ELSE sB],
        serial |-> [i \in 1..n |-> <<"s", DigitOf(i)>>],
        status |-> st,
        version |-> [i \in 1..n |-> s1],
        model |-> [i \in 1..n |-> sA],
        labels |-> [i \in 1..n |-> IF i % 2 = 0 THEN <<"l1">> ELSE <<>>],
        deployed |-> dp,
        label_dict |-> LabelDict] :
         st \in [1..n -> {"online", "offline"}],
         dp \in [1..n -> ListWorkloadLists]} : n \in 0..MaxNodes}

ListArgs ==
    [node_name : {None, sA}, node_path : {None}, node_version : {None},
     node_labels : {None}, node_model : {None},
     workload_name : {None, <<>>}, workload_id : {None},
     workload_version_name : {None}, workload_version_id : {None},
     workload_status : {None, sSTARTED}, workload_type : {None, sVm}]

ListInit ==
    /\ cmd = "list_nodes"
    /\ pc = "labels"
    /\ server \in ListServers
    /\ args \in ListArgs
    /\ stack = <<>> /\ requests = <<>> /\ walk = Idle /\ heap = <<>>
    /\ local = [ms_labels |-> NoDict, filtered_list |-> <<>>, index |-> 1,
                online_nodes |-> <<>>, offline_nodes |-> <<>>]
    /\ ret = <<>>

ListNext ==
    \/ ListGetLabels
    \/ WalkRoot
    \/ WalkRequest
    \/ WalkLeaf
    \/ ListFilterNodes
    \/ ListFetchWorkloads
    \/ ListFinish

SpecList == ListInit /\ [][ListNext]_vars

\* the references, in order, of the online nodes that pass the node filters
C8_OnlinePassing ==
    SelectSeq(filter_node_list(args.node_name, args.node_path, args.node_version,
                               args.node_labels, args.node_model,
                               Refs(walk.node_list), walk.node_list),
              LAMBDA r : walk.node_list[r].connection_status = "online")

\* workload wl satisfies every workload filter of the command line
C8_WorkloadMatches(wl) ==
    /\ Matches(args.workload_name, wl.name)
    /\ Matches(args.workload_id, wl._id)
    /\ Matches(args.workload_version_name, wl.version_name)
    /\ Matches(args.workload_version_id, wl.version_id)
    /\ Matches(args.workload_status, wl.state)
    /\ Matches(args.workload_type, wl.type)

\* some workload filter of the command line is a non-empty string
C8_FilterGiven ==
    \E k \in {"workload_name", "workload_id", "workload_version_name",
               "workload_version_id", "workload_status", "workload_type"} :
       args[k] # None /\ args[k] # <<>>

\* C8: in list_nodes, when no workload filter is given (none is a non-empty
\* string), every online node that passed the node filters is in the result
\* with its full deployed-workload list, nodes without workloads included;
\* when a workload filter is given, only nodes with at least one matching
\* workload are in the result.
C8_ListNodesWorkloadFilter ==
    (pc = "done" /\ cmd = "list_nodes") =>
      LET deployed(r) ==
            get_deployed_workloads_from_node(server, walk.node_list[r].serial_number)
      IN IF C8_FilterGiven
         THEN \A k \in 1..Len(ret) :
                 /\ ret[k] \in {C8_OnlinePassing[j] : j \in 1..Len(C8_OnlinePassing)}
                 /\ \E i \in 1..Len(deployed(ret[k])) :
                       C8_WorkloadMatches(deployed(ret[k])[i])
         ELSE /\ ret = C8_OnlinePassing
              /\ \A k \in 1..Len(ret) : heap[ret[k]].workloads = deployed(ret[k])

\* no workload filter: an online node without workloads is in the result,
\* next to an online node with both of its workloads
C8_Witness ==
    /\ pc = "done" /\ cmd = "list_nodes"
    /\ ~C8_FilterGiven /\ args.node_name = None
    /\ server.n = 2
    /\ server.status = <<"online", "online">>
    /\ server.deployed = <<<<>>, <<wlDocker, wlVm>>>>
    /\ ret = <<1, 2>>
    /\ heap[1].workloads = <<>>
    /\ heap[2].workloads = <<wlDocker, wlVm>>

\* ------------------------------------------------------------------------
\* The list reconciler: create_node_list_from_node_list and
\* create_wl_list_from_wl_list
\* ------------------------------------------------------------------------
\* findDictByValue stopping at the first item of the list
findDictByValue_first_only(d, key, value) ==
    IF Len(d) >= 1 /\ d[1][key] = value THEN 1 ELSE 0

\* findDictByValue: the position of the first item whose key has the value,
\* 0 for None
findDictByValue(d, key, value) ==
    IF \E i \in 1..Len(d) : d[i][key] = value
    THEN CHOOSE i \in 1..Len(d) :
            /\ d[i][key] = value
            /\ \A j \in 1..(i - 1) : d[j][key] # value
    ELSE 0

\* outcome of the identifier branches for an entry that is skipped
Skipped == 0 - 1

\* the branches taken with the name tried before the serial number
resolve_node_name_first(node, node_list) ==
    IF Truthy(node.name)
    THEN findDictByValue(node_list, "name", node.name)
    ELSE IF Truthy(node.serial_number)
    THEN findDictByValue(node_list, "serial_number", node.serial_number)
    ELSE Skipped

\* the branches with a record lacking both identifiers taking the first node
resolve_node_default_first(node, node_list) ==
    IF Truthy(node.serial_number)
    THEN findDictByValue(node_list, "serial_number", node.serial_number)
    ELSE IF Truthy(node.name)
    THEN findDictByValue(node_list, "name", node.name)
    ELSE IF Len(node_list) >= 1 THEN 1 ELSE Skipped

\* the identifier branches of create_node_list_from_node_list for one
\* partial record: the position of found_node, 0 for None, Skipped for continue
resolve_node(node, node_list) ==
    IF Truthy(node.serial_number)
    THEN findDictByValue(node_list, "serial_number", node.serial_number)
    ELSE IF Truthy(node.name)
    THEN findDictByValue(node_list, "name", node.name)
    ELSE Skipped

\* the workload branches with the name tried before the device_id
resolve_wl_name_first(wl, complete_list) ==
    IF Truthy(wl.name)
    THEN findDictByValue(complete_list, "name", wl.name)
    ELSE IF Truthy(wl.device_id)
    THEN findDictByValue(complete_list, "device_id", wl.device_id)
    ELSE IF Truthy(wl.version_name)
    THEN findDictByValue(complete_list, "version_name", wl.version_name)
    ELSE Skipped

\* the identifier branches of create_wl_list_from_wl_list for one partial
\* workload entry
resolve_wl(wl, complete_list) ==
    IF Truthy(wl.device_id)
    THEN findDictByValue(complete_list, "device_id", wl.device_id)
    ELSE IF Truthy(wl.name)
    THEN findDictByValue(complete_list, "name", wl.name)
    ELSE IF Truthy(wl.version_name)
    THEN findDictByValue(complete_list, "version_name", wl.version_name)
    ELSE Skipped

RECURSIVE wl_result(_, _, _, _)
\* the loop of create_wl_list_from_wl_list from position i on
wl_result(partial_list, complete_list, i, result) ==
    IF i > Len(partial_list) THEN result
    ELSE LET found_wl == resolve_wl(partial_list[i], complete_list)
         IN wl_result(partial_list, complete_list, i + 1,
                      IF found_wl >= 1 THEN Append(result, complete_list[found_wl])
                      ELSE result)

\* create_wl_list_from_wl_list asking for the workloads whatever the
\* connection status of the node
create_wl_list_from_wl_list_any_status(partial_list, node, tree) ==
    LET complete_list ==
           get_deployed_workloads_from_node(tree, node.serial_number)
    IN [requested |-> <<<<"devices", node.serial_number>>>>,
        result |-> IF complete_list = <<>> THEN <<>>
                   ELSE wl_result(partial_list, complete_list, 1, <<>>)]

\* create_wl_list_from_wl_list: the list returned and the request made
create_wl_list_from_wl_list(partial_list, node, tree) ==
    IF node.connection_status = "online"
    THEN LET complete_list ==
                get_deployed_workloads_from_node(tree, node.serial_number)
         IN [requested |-> <<<<"devices", node.serial_number>>>>,
             result |-> IF complete_list = <<>> THEN <<>>
                        ELSE wl_result(partial_list, complete_list, 1, <<>>)]
    ELSE [requested |-> <<>>, result |-> <<>>]

\* create_node_list_and_tree has returned to create_node_list_from_node_list
ReconStart ==
    /\ cmd = "create_node_list_from_node_list"
    /\ WalkReturnsToCaller
    /\ walk' = WalkResult
    /\ heap' = WalkResult.node_list
    /\ local' = [index |-> 1, result_list |-> <<>>]
    /\ stack' = <<>>
    /\ pc' = "loop"
    /\ UNCHANGED <<cmd, args, server, requests, ret>>

\* one pass of the loop that attaches 'workloads' only when it asks for them
ReconEntry_no_default ==
    /\ cmd = "create_node_list_from_node_list" /\ pc = "loop"
    /\ local.index <= Len(args.partial_list)
    /\ LET node == args.partial_list[local.index]
           found_node == resolve_node(node, heap)
       IN IF found_node >= 1
          THEN IF args.with_workloads /\ node.workloads # <<>>
               THEN LET out == create_wl_list_from_wl_list(
                                   node.workloads, heap[found_node], server)
                    IN /\ requests' = requests \o out.requested
                       /\ heap' = [heap EXCEPT ![found_node] =
                                     SetKey(@, "workloads", out.result)]
                       /\ local' = [local EXCEPT
                                      !.result_list = Append(@, found_node),
                                      !.index = @ + 1]
               ELSE /\ local' = [local EXCEPT
                                   !.result_list = Append(@, found_node),
                                   !.index = @ + 1]
                    /\ UNCHANGED <<requests, heap>>
          ELSE /\ local' = [local EXCEPT !.index = @ + 1]
               /\ UNCHANGED <<requests, heap>>
    /\ UNCHANGED <<cmd, pc, args, server, stack, walk, ret>>

\* one pass of the loop over the partial list
ReconEntry ==
    /\ cmd = "create_node_list_from_node_list" /\ pc = "loop"
    /\ local.index <= Len(args.partial_list)
    /\ LET node == args.partial_list[local.index]
           found_node == resolve_node(node, heap)
       IN IF found_node >= 1
          THEN IF args.with_workloads /\ node.workloads # <<>>
               THEN LET out == create_wl_list_from_wl_list(
                                   node.workloads, heap[found_node], server)
                    IN /\ requests' = requests \o out.requested
                       /\ heap' = [heap EXCEPT ![found_node] =
                                     SetKey(@, "workloads", out.result)]
                       /\ local' = [local EXCEPT
                                      !.result_list = Append(@, found_node),
                                      !.index = @ + 1]
               ELSE /\ heap' = [heap EXCEPT ![found_node] =
                                     SetKey(@, "workloads", <<>>)]
                    /\ local' = [local EXCEPT
                                   !.result_list = Append(@, found_node),
                                   !.index = @ + 1]
                    /\ UNCHANGED requests
          ELSE /\ local' = [local EXCEPT !.index = @ + 1]
               /\ UNCHANGED <<requests, heap>>
    /\ UNCHANGED <<cmd, pc, args, server, stack, walk, ret>>

\* the result list returned last entry first
ReconFinish_reversed ==
    /\ cmd = "create_node_list_from_node_list" /\ pc = "loop"
    /\ local.index > Len(args.partial_list)
    /\ ret' = [k \in 1..Len(local.result_list) |->
                 local.result_list[Len(local.result_list) + 1 - k]]
    /\ pc' = "done"
    /\ UNCHANGED <<cmd, args, server, stack, requests, walk, heap, local>>

\* create_node_list_from_node_list returns result_list
ReconFinish ==
    /\ cmd = "create_node_list_from_node_list" /\ pc = "loop"
    /\ local.index > Len(args.partial_list)
    /\ ret' = local.result_list
    /\ pc' = "done"
    /\ UNCHANGED <<cmd, args, server, stack, requests, walk, heap, local>>

\* ------------------------------------------------------------------------
\* Specification SpecRecon: create_node_list_from_node_list on flat trees of
\* at most MaxNodes nodes and partial lists of at most MaxPartial records
\* ------------------------------------------------------------------------
SerialOf(i) == <<"s", DigitOf(i)>>
\* a serial number no node of the tree carries
UnknownSerial == <<"s", "x">>

ReconServers ==
    UNION {
      {[n |-> n,
        parent |-> [i \in 1..n |-> RootId],
        type |-> [i \in 1..n |-> "node"],
        name |-> nm,
        serial |-> [i \in 1..n |-> SerialOf(i)],
        status |-> [i \in 1..n |-> IF i % 2 = 1 THEN "online" ELSE "offline"],
        version |-> [i \in 1..n |-> s1],
        model |-> [i \in 1..n |-> sA],
        labels |-> [i \in 1..n |-> IF i % 2 = 0 THEN <<"l1">> ELSE <<>>],
        deployed |-> [i \in 1..n |-> IF i % 2 = 1 THEN <<wlDocker, wlVm>>
                                     ELSE <<wlVm>>],
        label_dict |-> LabelDict] :
         nm \in [1..n -> TreeNames]} : n \in 0..MaxNodes}

PartialNode(serial_number, name, workloads) ==
    [serial_number |-> serial_number, name |-> name, workloads |-> workloads]

PartialWl(device_id, name, version_name) ==
    [device_id |-> device_id, name |-> name, version_name |-> version_name]

\* partial records: a missing key is None (what dict.get returns for it); a
\* missing 'workloads' key is the empty list, which the code treats alike
PartialNodes ==
    {PartialNode(SerialOf(i), None, <<>>) : i \in 1..MaxNodes}
      \cup {PartialNode(UnknownSerial, sA, <<>>),
            PartialNode(SerialOf(2), sA, <<>>),
            PartialNode(None, sA, <<>>),
            PartialNode(None, sB, <<>>),
            PartialNode(<<>>, sB, <<>>),
            PartialNode(None, None, <<>>),
            PartialNode(SerialOf(1), None,
                        <<PartialWl(wlVm.device_id, sA, None),
                          PartialWl(None, None, None)>>),
            PartialNode(None, sB,
                        <<PartialWl(None, sA, None),
                          PartialWl(None, None, sB)>>)}

ReconInit ==
    /\ cmd = "create_node_list_from_node_list"
    /\ pc = "walk"
    /\ server \in ReconServers
    /\ args \in [partial_list : SeqsUpTo(PartialNodes, MaxPartial),
                 with_workloads : BOOLEAN]
    /\ stack = <<>> /\ requests = <<>> /\ walk = Idle /\ heap = <<>>
    /\ local = [index |-> 1, result_list |-> <<>>]
    /\ ret = <<>>

ReconNext ==
    \/ WalkRoot
    \/ WalkRequest
    \/ WalkLeaf
    \/ ReconStart
    \/ ReconEntry
    \/ ReconFinish

SpecRecon == ReconInit /\ [][ReconNext]_vars

\* an identifier of a partial record is present: a non-empty value
C9_Present(v) == v # None /\ v # <<>>

\* the authoritative nodes partial record node has to resolve to (at most
\* one): by serial number alone if it has one, else by name, else none
C9_Expected(node) ==
    LET nl == walk.node_list IN
      IF C9_Present(node.serial_number)
      THEN {r \in 1..Len(nl) : nl[r].serial_number = node.serial_number}
      ELSE IF C9_Present(node.name)
      THEN {r \in 1..Len(nl) :
               /\ nl[r].name = node.name
               /\ \A q \in 1..(r - 1) : nl[q].name # node.name}
      ELSE {}

RECURSIVE C9_ExpectedList(_)
\* the expected nodes of the partial records from position k on, in order
C9_ExpectedList(k) ==
    IF k > Len(args.partial_list) THEN <<>>
    ELSE Ascending(C9_Expected(args.partial_list[k])) \o C9_ExpectedList(k + 1)

NodeAttributes ==
    {"_id", "name", "serial_number", "connection_status", "version", "model",
     "labels", "path"}

\* the partial list is one record per authoritative node, each carrying only
\* that node's serial number
C10_RoundTripInput ==
    /\ Len(args.partial_list) = server.n
    /\ \A k \in 1..Len(args.partial_list) :
          /\ args.partial_list[k].name = None
          /\ args.partial_list[k].workloads = <<>>
    /\ {args.partial_list[k].serial_number : k \in 1..Len(args.partial_list)}
          = {server.serial[i] : i \in 1..server.n}

\* C10: if the partial list is one record per node of the authoritative
\* list, each carrying only that node's serial_number, reconciliation returns
\* every authoritative node, in the order the partial records were given,
\* each with all node attributes populated.
C10_RoundTrip ==
    (pc = "done" /\ cmd = "create_node_list_from_node_list" /\ C10_RoundTripInput) =>
      /\ Len(ret) = server.n
      /\ {ret[k] : k \in 1..Len(ret)} = 1..server.n
      /\ \A k \in 1..Len(ret) :
            /\ heap[ret[k]].serial_number = args.partial_list[k].serial_number
            /\ NodeAttributes \subseteq DOMAIN heap[ret[k]]
            /\ \A a \in NodeAttributes : heap[ret[k]][a] = walk.node_list[ret[k]][a]
            /\ heap[ret[k]].name = server.name[heap[ret[k]]._id]
            /\ heap[ret[k]].serial_number = server.serial[heap[ret[k]]._id]
            /\ heap[ret[k]].connection_status = server.status[heap[ret[k]]._id]
            /\ heap[ret[k]].path = <<sRoot>>

\* the serial numbers of both nodes, second node first: both come back, in
\* the order given
C10_Witness ==
    /\ pc = "done" /\ cmd = "create_node_list_from_node_list"
    /\ server.n = 2
    /\ args.partial_list = <<PartialNode(SerialOf(2), None, <<>>),
                             PartialNode(SerialOf(1), None, <<>>)>>
    /\ ret = <<2, 1>>

\* the run of the reconciler is over, with a result or with an exception
ReconOver == cmd = "create_node_list_from_node_list" /\ pc \in {"done", "error"}

\* the positions of the partial records that carry neither identifier
C11_Unidentified ==
    {k \in 1..Len(args.partial_list) :
        /\ ~C9_Present(args.partial_list[k].serial_number)
        /\ ~C9_Present(args.partial_list[k].name)}

C12_Matched == {k \in 1..Len(args.partial_list) : C9_Expected(args.partial_list[k]) # {}}

\* C12: the reconciler's output is the sequence of authoritative nodes found
\* for the matched partial entries, in the input order of those entries,
\* with no placeholder for unmatched or unidentifiable entries; an
\* identifier that matches no authoritative node raises no error, it only
\* shortens the output.
C12_OutputIsMatchedInOrder ==
    ReconOver =>
      /\ pc = "done"
      /\ Len(ret) = Cardinality(C12_Matched)
      /\ \A j \in 1..Len(ret) :
            /\ ret[j] \in 1..Len(walk.node_list)
            /\ heap[ret[j]]._id = walk.node_list[ret[j]]._id
            /\ ret[j] \in C9_Expected(args.partial_list[Ascending(C12_Matched)[j]])

\* an unknown serial number before the name of node 2: the output is node 2
\* alone, in first place
C12_Witness ==
    /\ pc = "done" /\ cmd = "create_node_list_from_node_list"
    /\ server.n = 2 /\ server.name = <<sA, sB>>
    /\ args.partial_list = <<PartialNode(UnknownSerial, sA, <<>>),
                             PartialNode(None, sB, <<>>)>>
    /\ ret = <<2>>

\* the positions of the partial records that resolve to node r
C13_ResolvedBy(r) == {k \in 1..Len(args.partial_list) : r \in C9_Expected(args.partial_list[k])}

\* C13: with workloads requested, the deployed-workload endpoint is requested
\* only for resolved nodes whose connection_status is 'online' (and never
\* without workloads requested); for a resolved node that is not online no
\* request is made, no error is raised and the node is returned with an
\* empty workloads list.
C13_WorkloadsOnlyForOnlineNodes ==
    ReconOver =>
      /\ pc = "done"
      /\ \A q \in 1..Len(requests) :
            requests[q][1] = "devices" =>
              /\ args.with_workloads
              /\ \E r \in 1..Len(walk.node_list) :
                    /\ walk.node_list[r].serial_number = requests[q][2]
                    /\ walk.node_list[r].connection_status = "online"
                    /\ \E k \in C13_ResolvedBy(r) : args.partial_list[k].workloads # <<>>
      /\ \A j \in 1..Len(ret) :
            heap[ret[j]].connection_status # "online" =>
              /\ heap[ret[j]].workloads = <<>>
              /\ \A q \in 1..Len(requests) :
                    requests[q] # <<"devices", heap[ret[j]].serial_number>>

\* node 2, offline, is asked for by name with two workload entries: it is
\* returned with no workloads and only the tree was requested
C13_Witness ==
    /\ pc = "done" /\ cmd = "create_node_list_from_node_list"
    /\ args.with_workloads
    /\ server.n = 2 /\ server.name = <<sA, sB>>
    /\ Len(args.partial_list) = 1
    /\ args.partial_list[1].name = sB /\ args.partial_list[1].workloads # <<>>
    /\ ret = <<2>>
    /\ heap[2].connection_status = "offline" /\ heap[2].workloads = <<>>
    /\ \A q \in 1..Len(requests) : requests[q][1] # "devices"

\* the live workloads a partial workload entry resolves to (at most one): by
\* the first identifier present among device_id, name, version_name
C14_Expected(wl, live) ==
    LET field == IF C9_Present(wl.device_id) THEN "device_id"
                 ELSE IF C9_Present(wl.name) THEN "name"
                 ELSE IF C9_Present(wl.version_name) THEN "version_name"
                 ELSE "none"
    IN IF field = "none" THEN {}
       ELSE {i \in 1..Len(live) :
               /\ live[i][field] = wl[field]
               /\ \A j \in 1..(i - 1) : live[j][field] # wl[field]}

RECURSIVE C14_ExpectedList(_, _, _)
\* the live workloads expected for the partial entries from position k on
C14_ExpectedList(partial, live, k) ==
    IF k > Len(partial) THEN <<>>
    ELSE [j \in 1..Cardinality(C14_Expected(partial[k], live)) |->
             live[Ascending(C14_Expected(partial[k], live))[j]]]
         \o C14_ExpectedList(partial, live, k + 1)

StateProperty(name, options, value) == [name |-> name, options |-> options, value |-> value]
SecondService(property) == [property_list |-> <<[name |-> "Name"], [name |-> "Type"], property>>]
FirstService(value) == [property_list |-> <<[value |-> value]>>]
IdsJson == [json |-> [workloadId |-> s1, versionId |-> s2, workloadVersionName |-> sB]]
IdleStarted == [list |-> <<sIDLE, sSTARTED>>]
DeviceRecord(first, second) ==
    [id |-> <<"d", "1">>, device_name |-> sA, device_model_name |-> sDocker,
     service_list |-> <<first, second>>]

\* records the decoder accepts: the State value is an index of the options
GoodRecords ==
    {DeviceRecord(FirstService(IdsJson),
                  SecondService(StateProperty("State", IdleStarted, v))) : v \in {0 - 1, 0, 1}}
      \cup {Without(DeviceRecord(FirstService(IdsJson),
                                 SecondService(StateProperty("State", IdleStarted, 1))), "id")}

GoodRecord == DeviceRecord(FirstService(IdsJson), SecondService(StateProperty("State", IdleStarted, 1)))

\* records that deviate in one place, or in two
BadRecords ==
    {Without(GoodRecord, "device_name"),
     Without(Without(GoodRecord, "device_model_name"), "service_list"),
     Without(SetKey(GoodRecord, "service_list", <<FirstService(IdsJson)>>), "device_name"),
     SetKey(GoodRecord, "service_list", <<>>),
     SetKey(GoodRecord, "service_list", <<FirstService(IdsJson)>>),
     SetKey(GoodRecord, "service_list",
            <<FirstService(IdsJson), SecondService(StateProperty("State", IdleStarted, 1)),
              SecondService(StateProperty("State", IdleStarted, 1))>>),
     DeviceRecord(FirstService(IdsJson), SecondService(StateProperty("Status", IdleStarted, 1))),
     DeviceRecord(FirstService(IdsJson),
                  SecondService(StateProperty("Status", [str |-> sSTARTED], 1))),
     DeviceRecord(FirstService(IdsJson),
                  SecondService(StateProperty("State", [str |-> sSTARTED], 1))),
     DeviceRecord(FirstService(IdsJson), SecondService(StateProperty("State", IdleStarted, 2))),
     DeviceRecord(FirstService(IdsJson), SecondService([name |-> "State", value |-> 1])),
     DeviceRecord(FirstService(IdsJson),
                  [property_list |-> <<[name |-> "Name"],
                                       StateProperty("State", IdleStarted, 1)>>]),
     DeviceRecord(FirstService(IdsJson), [name |-> "no properties"]),
     DeviceRecord(FirstService([text |-> <<"{">>]),
                  SecondService(StateProperty("State", IdleStarted, 1))),
     DeviceRecord(FirstService([json |-> [workloadId |-> s1, workloadVersionName |-> sB]]),
                  SecondService(StateProperty("State", IdleStarted, 1))),
     DeviceRecord([property_list |-> <<[name |-> "Name"]>>],
                  SecondService(StateProperty("State", IdleStarted, 1))),
     DeviceRecord([property_list |-> <<>>],
                  SecondService(StateProperty("Status", IdleStarted, 1)))}

DecodeInit ==
    /\ cmd = "get_deployed_workloads_from_node"
    /\ pc = "call"
    /\ args = [serialNumber |-> SerialOf(1)]
    /\ server \in [response_ok : BOOLEAN,
                   devices : SeqsUpTo(GoodRecords \cup BadRecords, MaxDevices)]
    /\ stack = Idle /\ requests = <<>> /\ walk = Idle /\ heap = Idle
    /\ local = Idle /\ ret = Idle

\* get_deployed_workloads_from_node: the request and the loop over the
\* records of the response
GetDeployedWorkloads ==
    /\ cmd = "get_deployed_workloads_from_node" /\ pc = "call"
    /\ requests' = Append(requests, <<"devices", args.serialNumber>>)
    /\ LET out == IF ~server.response_ok THEN Raised("ActionUnsuccessful", <<>>)
                  ELSE decode_devices(server.devices, 1, <<>>)
       IN IF out.ok THEN pc' = "done" /\ ret' = out.value
          ELSE pc' = "error" /\ ret' = out
    /\ UNCHANGED <<cmd, args, server, stack, walk, heap, local>>

DecodeNext == GetDeployedWorkloads

SpecDecode == DecodeInit /\ [][DecodeNext]_vars

\* the run of the decoder is over, the request having succeeded
DecodeOver ==
    /\ cmd = "get_deployed_workloads_from_node" /\ pc \in {"done", "error"}
    /\ server.response_ok

TopKeys == {"device_name", "device_model_name", "service_list"}

\* the first service carries the three ids as JSON text in its first property
C15_FirstServiceFine(service) ==
    /\ "property_list" \in DOMAIN service
    /\ Len(service.property_list) >= 1
    /\ "value" \in DOMAIN service.property_list[1]
    /\ "json" \in DOMAIN service.property_list[1].value
    /\ {"workloadId", "versionId", "workloadVersionName"}
          \subseteq DOMAIN service.property_list[1].value.json

\* the second service has a third property carrying name, options and value
C15_HasThirdProperty(service) ==
    /\ "property_list" \in DOMAIN service
    /\ Len(service.property_list) >= 3
    /\ {"name", "options", "value"} \subseteq DOMAIN service.property_list[3]

\* record r has its keys and two services, the first one fine, the second
\* with a third property
C15_ReachesState(r) ==
    /\ TopKeys \subseteq DOMAIN r
    /\ Len(r.service_list) = 2
    /\ C15_FirstServiceFine(r.service_list[1])
    /\ C15_HasThirdProperty(r.service_list[2])

\* the State property of a record that reaches it
C15_State(r) == r.service_list[2].property_list[3]

\* record r is decodable: all of the above, the property is named State, its
\* options are a list and its value is an index of that list
C16_WellFormed(r) ==
    /\ C15_ReachesState(r)
    /\ C15_State(r).name = "State"
    /\ "list" \in DOMAIN C15_State(r).options
    /\ 0 - Len(C15_State(r).options.list) <= C15_State(r).value
    /\ C15_State(r).value < Len(C15_State(r).options.list)

TraverseLabelDict == [l1 |-> <<sA, sB>>, l2 |-> <<sB, sA>>]

\* the trees: every parent is the root or an earlier container, which may be
\* an unassigned bucket inside the unassigned bucket; the nodes carry label
\* ids of the dictionary and one ("l9") that the dictionary does not hold
TraverseTrees ==
    UNION {{[tr EXCEPT !.labels = [i \in 1..n |-> IF i % 2 = 1 THEN <<"l2", "l1">>
                                                 ELSE <<"l1", "l9">>]] :
              tr \in {t \in TreesOfSize(n) :
                        \A i \in 1..n :
                           /\ t.name[i] = IF i % 2 = 1 THEN sA ELSE sB
                           /\ t.parent[i] = RootId \/ t.type[t.parent[i]] \in ContainerTypes}} :
           n \in 0..MaxFaultTree}

\* what can be wrong with the answers for tree
Faults(tree) ==
    {NoFault, [kind |-> "root_empty", at |-> 0, key |-> "none"],
     [kind |-> "root_type", at |-> 0, key |-> "none"]}
      \cup {[kind |-> "request_fails", at |-> k, key |-> "none"] : k \in 1..(tree.n + 1)}
      \cup {[kind |-> "root_lacks", at |-> 0, key |-> ChildKeys[j]] : j \in 1..Len(ChildKeys)}
      \cup {[kind |-> "child_lacks", at |-> i, key |-> ChildKeys[j]] :
               i \in 1..tree.n, j \in 1..Len(ChildKeys)}
      \cup {[kind |-> "no_device", at |-> i, key |-> "none"] :
               i \in {e \in 1..tree.n : tree.type[e] = "node"}}
      \cup {[kind |-> "device_lacks", at |-> i, key |-> DeviceKeys[j]] :
               i \in {e \in 1..tree.n : tree.type[e] = "node"}, j \in 1..Len(DeviceKeys)}

TraverseServers == UNION {{SetKey(tr, "fault", f) : f \in Faults(tr)} : tr \in TraverseTrees}

TraverseInit ==
    /\ cmd = "create_node_list_and_tree"
    /\ pc = "walk"
    /\ server \in TraverseServers
    /\ args \in [ms_labels : {NoDict, TraverseLabelDict}]
    /\ stack = <<>> /\ requests = <<>>
    /\ walk = Idle /\ heap = Idle /\ local = Idle /\ ret = Idle

TraverseNext ==
    \/ WalkRoot
    \/ WalkRequest
    \/ WalkDescend
    \/ WalkLeaf
    \/ WalkReturn
    \/ WalkFinish

SpecTraverse == TraverseInit /\ [][TraverseNext]_vars

\* the run of the walker is over, with a result or with an exception
WalkOver == cmd = "create_node_list_and_tree" /\ pc \in {"done", "error"}

\* the tree elements above element i, up to the root
RECURSIVE Ancestors(_, _)
Ancestors(tree, i) ==
    IF i = RootId \/ tree.parent[i] = RootId THEN {}
    ELSE {tree.parent[i]} \cup Ancestors(tree, tree.parent[i])

\* C17: if any request made during the traversal fails, or any response is
\* malformed (a child lacking _id, name or type, a node child lacking its
\* device sub-record or one of its fields), create_node_list_and_tree ends
\* with an ActionUnsuccessful or DataNotAsExpected error and returns neither
\* a partial tree nor a partial node list.
C17_TraversalFailsWithDeclaredError ==
    (/\ cmd = "create_node_list_and_tree" /\ pc = "error"
     /\ FaultOf(server).kind \in {"request_fails", "child_lacks", "no_device", "device_lacks"}
     /\ ret.exception # "RecursionError")
    => /\ ret.exception \in {"ActionUnsuccessful", "DataNotAsExpected"}
       /\ walk = Idle

\* C18: when the root request succeeds but returns zero root elements, or a
\* root element lacking _id, name or type, create_node_list_and_tree fails
\* with DataNotAsExpected and issues no children request.
C18_BadRootIsDataNotAsExpected ==
    (WalkOver /\ FaultOf(server).kind \in {"root_empty", "root_lacks"})
    => /\ pc = "error"
       /\ ret.exception = "DataNotAsExpected"
       /\ requests = <<<<"root">>>>

\* C19: during one traversal each root or folder tree node gets exactly one
\* children request, and the 'unassigned' endpoint is requested exactly once
\* with no fetch below the unassigned bucket, whatever types its children
\* carry: no request is sent twice, and no children request is sent for an
\* element inside the unassigned bucket.
C19_OneRequestPerContainer ==
    cmd = "create_node_list_and_tree" =>
      /\ \A q1, q2 \in 1..Len(requests) : requests[q1] = requests[q2] => q1 = q2
      /\ \A q \in 1..Len(requests) :
            requests[q][1] = "parent" =>
              \A a \in ({requests[q][2]} \cup Ancestors(server, requests[q][2])) \ {RootId} :
                 server.type[a] # "unassigned" \/ a = requests[q][2]
      /\ \A q \in 1..Len(requests) :
            requests[q][1] = "parent" /\ requests[q][2] # RootId =>
              server.type[requests[q][2]] = "folder"

\* C20: when a label dictionary is supplied, every element of a node's labels
\* list is the (key, value) pair the dictionary holds for the corresponding
\* label id, in label-id order, and a label id that is not in the dictionary
\* raises DataNotAsExpected (so no node list is returned); when no dictionary
\* is supplied every node's labels list is empty and no error is raised.
C20_LabelsResolvedOrRaised ==
    (cmd = "create_node_list_and_tree" /\ pc = "done" /\ FaultOf(server) = NoFault) =>
      \A k \in 1..Len(walk.node_list) :
         LET ids == server.labels[walk.node_list[k]._id]
             labels == walk.node_list[k].labels
         IN IF args.ms_labels = NoDict THEN labels = <<>>
            ELSE /\ Len(labels) = Len(ids)
                 /\ \A j \in 1..Len(ids) :
                       /\ ids[j] \in DOMAIN args.ms_labels
                       /\ labels[j] = args.ms_labels[ids[j]]

\* ------------------------------------------------------------------------
\* The reconciled list as the reboot and control loops receive it
\* ------------------------------------------------------------------------

\* all_nodes_have_serial_numbers: every node has a truthy 'serial_number'
all_nodes_have_serial_numbers(node_list) ==
    \A i \in 1..Len(node_list) : Truthy(DictGet(node_list[i], "serial_number"))

\* node i stops the loop of all_workloads_have_device_ids: it has no
\* 'workloads' key, or one of its workloads has no truthy 'device_id'
StopsDeviceIdCheck(node) ==
    \/ "workloads" \notin DOMAIN node
    \/ \E w \in 1..Len(node.workloads) : ~Truthy(DictGet(node.workloads[w], "device_id"))

\* all_workloads_have_device_ids: node["workloads"] raises KeyError for a
\* node without the key; the first workload without device_id returns False
all_workloads_have_device_ids(node_list) ==
    LET stops == {i \in 1..Len(node_list) : StopsDeviceIdCheck(node_list[i])}
    IN IF stops = {} THEN Returned(TRUE)
       ELSE LET i == CHOOSE x \in stops : \A y \in stops : x <= y
            IN IF "workloads" \notin DOMAIN node_list[i]
               THEN Raised("KeyError", <<"workloads">>)
               ELSE Returned(FALSE)

\* the list create_node_list_from_node_list returned, as dictionaries
ReconOutput == [j \in 1..Len(ret) |-> heap[ret[j]]]

\* what create_wl_list_from_wl_list has to return for partial record k
\* resolved to node r, taken on its own
C28_OwnWorkloads(k, r) ==
    LET live == server.deployed[walk.node_list[r]._id]
        node == args.partial_list[k]
    IN IF /\ args.with_workloads
          /\ node.workloads # <<>>
          /\ walk.node_list[r].connection_status = "online"
          /\ live # <<>>
       THEN C14_ExpectedList(node.workloads, live, 1)
       ELSE <<>>

\* C28: for every matched partial node entry, the 'workloads' of the
\* corresponding output entry is the reconciliation of that entry's own
\* partial workload list (the empty list when workloads are not requested or
\* the entry has none), independently of the other entries, also when two
\* partial entries resolve to the same authoritative node.
C28_WorkloadsPerEntry ==
    (pc = "done" /\ cmd = "create_node_list_from_node_list") =>
      /\ Len(ret) = Cardinality(C12_Matched)
      /\ \A j \in 1..Len(ret) :
            heap[ret[j]].workloads =
               C28_OwnWorkloads(Ascending(C12_Matched)[j], ret[j])

C30_FilterFrameAndIdempotence ==
    pc = "done" =>
      /\ cmd = "filter_node_list" => heap = local.before
      /\ cmd = "filter_node_list_for_wl" =>
           /\ Len(heap) = Len(local.before)
           /\ \A r \in 1..Len(heap) :
                 /\ DOMAIN heap[r] = DOMAIN local.before[r]
                 /\ Without(heap[r], "workloads") = Without(local.before[r], "workloads")
                 /\ (\A j \in 1..Len(ret) : ret[j] # r) => heap[r] = local.before[r]
           /\ filter_node_list_for_wl(args, ret, heap) = [ret |-> ret, heap |-> heap]

\* of two nodes the first keeps its started workload only, the second, whose
\* only workload is stopped, is not retained and keeps it
C30_Witness ==
    /\ pc = "done" /\ cmd = "filter_node_list_for_wl"
    /\ args.status_filter = sSTARTED
    /\ Len(local.before) = 2
    /\ local.before[1].workloads = <<wlDocker, wlVm>>
    /\ local.before[2].workloads = <<wlVm>>
    /\ ret = <<1>>
    /\ heap[1].workloads = <<wlDocker>>
    /\ heap[2] = local.before[2]

\* ------------------------------------------------------------------------
\* Waiting for the download of a workload version
\* ------------------------------------------------------------------------

\* time_still_left as wait_for_completion_of_workload_version_download sets it
PollLimit == 300

\* a version of a workload as the management system reports it
VersionInfo(name, isDownloading) == [name |-> name, isDownloading |-> isDownloading]

\* a workload as the management system reports it
WorkloadInfo(type, versions) == [_id |-> s1, name |-> sA, type |-> type, versions |-> versions]

\* the answer to GET /nerve/v2/workloads/{_id}: the request fails, or it
\* carries a JSON value (NoDict: an empty one)
InfoAnswer(ok, json) == [ok |-> ok, json |-> json]

\* get_workload_info called with _id (and no versions)
get_workload_info(answer) ==
    IF ~answer.ok THEN Raised("ActionUnsuccessful", <<>>)
    ELSE Returned(answer.json)

\* the_added_wl_version.get("isDownloading", False) of the first version
is_downloading_first_version(wl_info) ==
    IF "isDownloading" \in DOMAIN wl_info.versions[1]
    THEN wl_info.versions[1].isDownloading
    ELSE FALSE

\* the_added_wl_version.get("isDownloading", False) of wl_info["versions"][-1]
is_downloading(wl_info) ==
    LET the_added_wl_version == wl_info.versions[Len(wl_info.versions)]
    IN IF "isDownloading" \in DOMAIN the_added_wl_version
       THEN the_added_wl_version.isDownloading
       ELSE FALSE

\* one pass of the loop of wait_for_completion_of_workload_version_download
\* that starts with time_still_left and gets answer to its request: where
\* the function is afterwards, and what it returned or raised
wait_step(time_still_left, answer) ==
    LET t == time_still_left - 1
        wl_info == get_workload_info(answer)
        at(where, result) == [pc |-> where, time_still_left |-> t, result |-> result]
    IN IF ~wl_info.ok THEN at("error", wl_info)
       ELSE IF wl_info.value = NoDict THEN at("error", Raised("ActionUnsuccessful", <<>>))
       ELSE IF "versions" \notin DOMAIN wl_info.value
       THEN at("error", Raised("KeyError", <<"versions">>))
       ELSE IF wl_info.value.versions = <<>> THEN at("error", Raised("IndexError", <<>>))
       ELSE IF ~is_downloading(wl_info.value) THEN at("done", Returned(s1))
       ELSE IF t = 0 THEN at("done", Returned(s1))
       ELSE at("poll", Returned(None))

\* ------------------------------------------------------------------------
\* Specification SpecWait: wait_for_completion_of_workload_version_download
\* against a management system that answers each poll as it likes
\* ------------------------------------------------------------------------
InfoAnswers ==
    {InfoAnswer(FALSE, NoDict), InfoAnswer(TRUE, NoDict),
     InfoAnswer(TRUE, [_id |-> s1, name |-> sA, type |-> sDocker]),
     InfoAnswer(TRUE, WorkloadInfo(sDocker, <<>>)),
     InfoAnswer(TRUE, WorkloadInfo(sDocker, <<VersionInfo(sA, TRUE)>>)),
     InfoAnswer(TRUE, WorkloadInfo(sDocker, <<VersionInfo(sA, FALSE)>>)),
     InfoAnswer(TRUE, WorkloadInfo(sDocker, <<[name |-> sA]>>)),
     InfoAnswer(TRUE, WorkloadInfo(sDocker, <<VersionInfo(sA, TRUE), VersionInfo(sB, FALSE)>>)),
     InfoAnswer(TRUE, WorkloadInfo(sDocker, <<VersionInfo(sA, FALSE), VersionInfo(sB, TRUE)>>))}

WaitInit ==
    /\ cmd = "wait_for_completion_of_workload_version_download"
    /\ pc = "poll"
    /\ args = [wl_id |-> s1]
    /\ local = [time_still_left |-> PollLimit, slept |-> 0, polls |-> 0,
                answer |-> InfoAnswer(FALSE, NoDict)]
    /\ server = Idle /\ stack = Idle /\ requests = Idle /\ walk = Idle
    /\ heap = Idle /\ ret = <<>>

\* time.sleep(1), the request and the tests on its answer
WaitPoll ==
    /\ cmd = "wait_for_completion_of_workload_version_download" /\ pc = "poll"
    /\ \E answer \in InfoAnswers :
          LET out == wait_step(local.time_still_left, answer)
          IN /\ local' = [time_still_left |-> out.time_still_left,
                          slept |-> local.slept + 1,
                          polls |-> local.polls + 1,
                          answer |-> answer]
             /\ pc' = out.pc
             /\ ret' = IF out.pc = "poll" THEN ret ELSE out.result
    /\ UNCHANGED <<cmd, args, server, stack, requests, walk, heap>>

WaitNext == WaitPoll

SpecWait == WaitInit /\ [][WaitNext]_vars

\* the last poll was answered with a workload whose last version is still
\* downloading
C21_StillDownloading ==
    /\ local.answer.ok /\ local.answer.json # NoDict
    /\ "versions" \in DOMAIN local.answer.json
    /\ local.answer.json.versions # <<>>
    /\ LET last == local.answer.json.versions[Len(local.answer.json.versions)]
       IN "isDownloading" \in DOMAIN last /\ last.isDownloading

\* C21: wait_for_completion_of_workload_version_download always terminates:
\* it polls at most 300 times, one poll per second slept; it goes on polling
\* only while the last version is downloading and fewer than 300 polls were
\* made; it returns the workload id as soon as the last version is no
\* longer downloading, and after the 300th poll even if it still is; a poll
\* that yields no workload info raises ActionUnsuccessful.
C21_WaitTerminates ==
    cmd = "wait_for_completion_of_workload_version_download" =>
      /\ local.polls <= 300
      /\ local.slept = local.polls
      /\ local.polls + local.time_still_left = 300
      /\ (pc = "poll" /\ local.polls > 0) => (C21_StillDownloading /\ local.polls < 300)
      /\ (local.polls > 0 /\ C21_StillDownloading /\ local.polls < 300) => pc = "poll"
      /\ (local.polls > 0 /\ C21_StillDownloading /\ local.polls = 300) =>
            (pc = "done" /\ ret = Returned(args.wl_id))
      /\ (local.polls > 0 /\ local.answer.ok /\ local.answer.json # NoDict
            /\ "versions" \in DOMAIN local.answer.json
            /\ local.answer.json.versions # <<>> /\ ~C21_StillDownloading) =>
            (pc = "done" /\ ret = Returned(args.wl_id))
      /\ (local.polls > 0 /\ (~local.answer.ok \/ local.answer.json = NoDict)) =>
            (pc = "error" /\ ret = Raised("ActionUnsuccessful", <<>>))

\* the download was still running at each of 300 polls: the function
\* returned the workload id after the 300th
C21_Witness ==
    /\ cmd = "wait_for_completion_of_workload_version_download"
    /\ pc = "done" /\ local.polls = 300 /\ local.time_still_left = 0
    /\ C21_StillDownloading
    /\ ret = Returned(s1)

\* ------------------------------------------------------------------------
\* Creating a workload with its versions in the management system
\* ------------------------------------------------------------------------

\* get_workload_info called with name: the workloads of that name among the
\* answer's 'data'
get_workload_info_by_name(lacks_data, named) ==
    IF lacks_data THEN Raised("DataNotAsExpected", <<"data">>)
    ELSE IF named > 1 THEN Raised("ActionUnsuccessful", <<>>)
    ELSE IF named = 0 THEN Returned(NoDict)
    ELSE Returned(WorkloadInfo(sDocker, <<>>))

\* what happens to one version in add_workload_version_in_ms before the wait:
\* the info request, prepare_docker_version_dict_from_wl_def and the PATCH
\* request with their outcomes
add_version(source, answer, patch_ok) ==
    LET wl_info == get_workload_info(answer)
    IN IF ~wl_info.ok THEN [patched |-> FALSE, result |-> wl_info]
       ELSE IF wl_info.value = NoDict \/ wl_info.value.type # sDocker \/ source = "upload"
       THEN [patched |-> FALSE, result |-> Raised("ActionUnsuccessful", <<>>)]
       ELSE IF ~patch_ok
       THEN [patched |-> TRUE, result |-> Raised("ActionUnsuccessful", <<>>)]
       ELSE [patched |-> TRUE, result |-> Returned(None)]

\* the first request of create_workload_in_ms: is there a workload of the
\* definition's name
CreateSearch ==
    /\ cmd = "create_workload_in_ms" /\ pc = "search"
    /\ requests' = Append(requests, <<"search">>)
    /\ LET wl_info == get_workload_info_by_name(server.lacks_data, server.named)
       IN IF ~wl_info.ok THEN pc' = "error" /\ ret' = wl_info
          ELSE IF wl_info.value = NoDict THEN pc' = "create" /\ UNCHANGED ret
          ELSE pc' = "versions" /\ UNCHANGED ret
    /\ UNCHANGED <<cmd, args, server, stack, walk, heap, local>>

\* create_workload_without_versions_in_ms and what create_workload_in_ms
\* does with its outcome
CreateWorkload ==
    /\ cmd = "create_workload_in_ms" /\ pc = "create"
    /\ IF args.type = sDocker
       THEN /\ requests' = Append(requests, <<"create">>)
            /\ \E response_ok \in BOOLEAN :
                  IF response_ok THEN pc' = "versions" /\ UNCHANGED ret
                  ELSE pc' = "done" /\ ret' = Returned(None)
       ELSE /\ pc' = "error" /\ ret' = Raised("TypeError", <<>>)
            /\ UNCHANGED requests
    /\ UNCHANGED <<cmd, args, server, stack, walk, heap, local>>

\* the test of the definition's type before the loop over the versions
CreateVersions ==
    /\ cmd = "create_workload_in_ms" /\ pc = "versions"
    /\ IF args.type = sDocker THEN pc' = "add" /\ UNCHANGED ret
       ELSE pc' = "error" /\ ret' = Raised("ActionUnsuccessful", <<>>)
    /\ UNCHANGED <<cmd, args, server, stack, requests, walk, heap, local>>

\* one pass of the loop that never waits for the download
CreateAdd_never_waits ==
    /\ cmd = "create_workload_in_ms" /\ pc = "add"
    /\ local.k <= Len(args.versions)
    /\ \E answer \in InfoAnswers \cup {InfoAnswer(TRUE, WorkloadInfo(sVm, <<>>))}, patch_ok \in BOOLEAN :
          LET out == add_version(args.versions[local.k], answer, patch_ok)
              sent == requests \o <<<<"info", local.k>>>>
                        \o (IF out.patched THEN <<<<"add", local.k>>>> ELSE <<>>)
          IN IF ~out.result.ok
             THEN /\ pc' = "error" /\ ret' = out.result
                  /\ requests' = sent
                  /\ UNCHANGED local
             ELSE /\ pc' = "add"
                  /\ requests' = sent
                  /\ local' = [local EXCEPT !.k = @ + 1]
                  /\ UNCHANGED ret
    /\ UNCHANGED <<cmd, args, server, stack, walk, heap>>

\* one pass of the loop over the versions: add_workload_version_in_ms up to
\* its return or to the start of the wait
CreateAdd ==
    /\ cmd = "create_workload_in_ms" /\ pc = "add"
    /\ local.k <= Len(args.versions)
    /\ \E answer \in InfoAnswers \cup {InfoAnswer(TRUE, WorkloadInfo(sVm, <<>>))}, patch_ok \in BOOLEAN :
          LET out == add_version(args.versions[local.k], answer, patch_ok)
              sent == requests \o <<<<"info", local.k>>>>
                        \o (IF out.patched THEN <<<<"add", local.k>>>> ELSE <<>>)
          IN IF ~out.result.ok
             THEN /\ pc' = "error" /\ ret' = out.result
                  /\ requests' = sent
                  /\ UNCHANGED local
             ELSE IF ~args.sequential
             THEN /\ pc' = "add"
                  /\ requests' = sent
                  /\ local' = [local EXCEPT !.k = @ + 1]
                  /\ UNCHANGED ret
             ELSE /\ pc' = "wait"
                  /\ requests' = Append(sent, <<"wait_begin", local.k>>)
                  /\ local' = [local EXCEPT !.time_still_left = PollLimit]
                  /\ UNCHANGED ret
    /\ UNCHANGED <<cmd, args, server, stack, walk, heap>>

\* one pass of the wait loop inside add_workload_version_in_ms
CreateWait ==
    /\ cmd = "create_workload_in_ms" /\ pc = "wait"
    /\ \E answer \in InfoAnswers :
          LET out == wait_step(local.time_still_left, answer)
          IN IF out.pc = "poll"
             THEN /\ local' = [local EXCEPT !.time_still_left = out.time_still_left]
                  /\ UNCHANGED <<pc, ret, requests>>
             ELSE IF out.pc = "done"
             THEN /\ local' = [k |-> local.k + 1, time_still_left |-> 0]
                  /\ requests' = Append(requests, <<"wait_end", local.k>>)
                  /\ pc' = "add"
                  /\ UNCHANGED ret
             ELSE /\ pc' = "error" /\ ret' = out.result
                  /\ local' = [local EXCEPT !.time_still_left = 0]
                  /\ UNCHANGED requests
    /\ UNCHANGED <<cmd, args, server, stack, walk, heap>>

\* all versions were added: create_workload_in_ms returns the workload's id
CreateReturn ==
    /\ cmd = "create_workload_in_ms" /\ pc = "add"
    /\ local.k > Len(args.versions)
    /\ pc' = "done" /\ ret' = Returned(s1)
    /\ UNCHANGED <<cmd, args, server, stack, requests, walk, heap, local>>

\* ------------------------------------------------------------------------
\* Specification SpecCreate: create_workload_in_ms for definitions of at
\* most MaxVersions versions
\* ------------------------------------------------------------------------
CreateInit ==
    /\ cmd = "create_workload_in_ms"
    /\ pc = "search"
    /\ args \in [type : {sDocker, sVm},
                 versions : SeqsUpTo({"path", "upload"}, MaxVersions),
                 sequential : BOOLEAN]
    /\ server \in [named : 0..2, lacks_data : BOOLEAN]
    /\ local = [k |-> 1, time_still_left |-> 0]
    /\ requests = <<>>
    /\ stack = Idle /\ walk = Idle /\ heap = Idle /\ ret = <<>>

CreateNext ==
    \/ CreateSearch
    \/ CreateWorkload
    \/ CreateVersions
    \/ CreateAdd
    \/ CreateWait
    \/ CreateReturn

SpecCreate == CreateInit /\ [][CreateNext]_vars

\* the positions of event e in the trace of requests and waits
C24_At(e) == {i \in 1..Len(requests) : requests[i] = e}

\* the add requests made so far
C24_Adds == SelectSeq(requests, LAMBDA e : e[1] = "add")

\* C24: create_workload_in_ms issues a create request only when no workload
\* with the definition's name exists, then adds the definition's versions
\* one at a time in list order; with sequential=True the add request for
\* version k+1 is issued only after the download wait for version k has
\* ended, and with sequential=False there is no waiting between add
\* requests.
C24_CreateThenVersionsInOrder ==
    cmd = "create_workload_in_ms" =>
      /\ C24_At(<<"create">>) # {} =>
            (server.named = 0 /\ C24_At(<<"create">>) = {2})
      /\ \A i \in 1..Len(C24_Adds) :
            /\ C24_Adds[i] = <<"add", i>>
            /\ \A c \in C24_At(<<"create">>) : \A a \in C24_At(<<"add", i>>) : c < a
      /\ (pc = "done" /\ ret = Returned(s1)) => Len(C24_Adds) = Len(args.versions)
      /\ args.sequential =>
            \A k \in 1..(Len(C24_Adds) - 1) :
               \E b \in C24_At(<<"wait_begin", k>>), e \in C24_At(<<"wait_end", k>>) :
                  \A a \in C24_At(<<"add", k>>), n \in C24_At(<<"add", k + 1>>) :
                     a < b /\ b < e /\ e < n
      /\ ~args.sequential =>
            /\ pc # "wait"
            /\ \A i \in 1..Len(requests) :
                  requests[i][1] \notin {"wait_begin", "wait_end"}

\* a new workload with two versions, created sequentially: the second
\* version was added after the wait for the first had ended
C24_Witness ==
    /\ cmd = "create_workload_in_ms" /\ pc = "done" /\ ret = Returned(s1)
    /\ args.sequential /\ Len(args.versions) = 2 /\ server.named = 0
    /\ requests = <<<<"search">>, <<"create">>,
                    <<"info", 1>>, <<"add", 1>>, <<"wait_begin", 1>>, <<"wait_end", 1>>,
                    <<"info", 2>>, <<"add", 2>>, <<"wait_begin", 2>>, <<"wait_end", 2>>>>

\* ------------------------------------------------------------------------
\* The list_workloads command
\* ------------------------------------------------------------------------
sCompose == <<"d", "o", "c", "k", "e", "r", "-", "c", "o", "m", "p", "o", "s", "e">>

\* workload.get("versions", [])
VersionsOf(workload) == IF "versions" \in DOMAIN workload THEN workload.versions ELSE <<>>

\* the versions of workload that the version filters of filter_workloads keep
filtered_versions(workload, version_name, version_id) ==
    SelectSeq(VersionsOf(workload),
              LAMBDA version : /\ Matches(version_name, DictGet(version, "name"))
                               /\ Matches(version_id, DictGet(version, "_id")))

\* the test filter_workloads makes on one workload; show_disabled is a
\* truth value (an omitted show_disabled is None, which is false)
workload_passes(workload, name, _id, _type, show_disabled) ==
    /\ Matches(name, workload.name)
    /\ Matches(_id, workload._id)
    /\ (~Truthy(_type) \/ _type = workload.type)
    /\ (show_disabled \/ ~workload.disabled)

\* filter_workloads
filter_workloads(workloads, name, _id, _type, show_disabled, version_name, version_id) ==
    LET kept == SelectSeq(workloads,
                   LAMBDA workload :
                      /\ workload_passes(workload, name, _id, _type, show_disabled)
                      /\ Truthy(version_name) =>
                            filtered_versions(workload, version_name, version_id) # <<>>)
    IN [i \in 1..Len(kept) |->
          IF Truthy(version_name)
          THEN SetKey(kept[i], "versions",
                      filtered_versions(kept[i], version_name, version_id))
          ELSE kept[i]]

\* the handler's second call of filter_workloads, which passes version_name
\* only
filter_workloads_by_version(result, version_name) ==
    filter_workloads(result, None, None, None, FALSE, version_name, None)

\* the types handle_workloads_list fetches details for
SupportedTypes == {sDocker, <<"c", "o", "d", "e", "s", "y", "s">>, sVm}

\* the entry of /nerve/v2/workloads for workload w of the management system
ListEntry(w) == Without(w, "versions")

\* list_workloads fails at its first or second request, or returns the list
WlListFetch ==
    /\ cmd = "list_workloads" /\ pc = "list"
    /\ IF server.fails_at = 1
       THEN /\ requests' = <<<<"workloads">>>>
            /\ pc' = "failed" /\ UNCHANGED local
       ELSE IF server.fails_at = 2
       THEN /\ requests' = <<<<"workloads">>, <<"workloads", "limit">>>>
            /\ pc' = "failed" /\ UNCHANGED local
       ELSE /\ requests' = <<<<"workloads">>, <<"workloads", "limit">>>>
            /\ local' = [local EXCEPT !.result =
                           [i \in 1..Len(server.workloads) |-> ListEntry(server.workloads[i])]]
            /\ pc' = "filter"
    /\ UNCHANGED <<cmd, args, server, stack, walk, heap, ret>>

\* the first call of filter_workloads
WlListFilter ==
    /\ cmd = "list_workloads" /\ pc = "filter"
    /\ local' = [result |-> filter_workloads(local.result, args.name, args.id,
                                             args.type, args.disabled, None, None),
                 i |-> 1]
    /\ pc' = "details"
    /\ UNCHANGED <<cmd, args, server, stack, requests, walk, heap, ret>>

\* one pass of the loop that replaces the entries by their details
WlListDetail ==
    /\ cmd = "list_workloads" /\ pc = "details"
    /\ local.i <= Len(local.result)
    /\ LET entry == local.result[local.i]
       IN IF entry.type \in SupportedTypes
          THEN /\ requests' = Append(requests, <<"workloads", entry._id>>)
               /\ \E response_ok \in BOOLEAN :
                     local' = [result |->
                                 IF response_ok
                                 THEN [local.result EXCEPT ![local.i] =
                                         CHOOSE w \in {server.workloads[k] :
                                                         k \in 1..Len(server.workloads)} :
                                            w._id = entry._id]
                                 ELSE local.result,
                               i |-> local.i + 1]
          ELSE /\ local' = [local EXCEPT !.i = @ + 1]
               /\ UNCHANGED requests
    /\ UNCHANGED <<cmd, pc, args, server, stack, walk, heap, ret>>

\* the second call of filter_workloads and the return of the result
WlListFinish ==
    /\ cmd = "list_workloads" /\ pc = "details"
    /\ local.i > Len(local.result)
    /\ ret' = filter_workloads_by_version(local.result, args.version_name)
    /\ pc' = "done"
    /\ UNCHANGED <<cmd, args, server, stack, requests, walk, heap, local>>

\* ------------------------------------------------------------------------
\* Specification SpecListWl: handle_workloads_list on management systems
\* with at most MaxWorkloads workloads
\* ------------------------------------------------------------------------
ServerWorkloads ==
    UNION {
      {[i \in 1..n |->
          [_id |-> <<DigitOf(i)>>, name |-> nm[i], type |-> ty[i],
           disabled |-> ds[i],
           versions |-> <<[name |-> sA, _id |-> s1], [name |-> sB, _id |-> s2]>>]] :
         nm \in [1..n -> {sA, sB}], ty \in [1..n -> {sDocker, sCompose}],
         ds \in [1..n -> BOOLEAN]} : n \in 0..MaxWorkloads}

WlListInit ==
    /\ cmd = "list_workloads"
    /\ pc = "list"
    /\ server \in [workloads : ServerWorkloads, fails_at : 0..2]
    /\ args \in [name : {None, sA}, id : {None}, type : {None, sDocker},
                 disabled : BOOLEAN, version_name : {None, sB}]
    /\ local = [result |-> <<>>, i |-> 1]
    /\ requests = <<>>
    /\ stack = Idle /\ walk = Idle /\ heap = Idle /\ ret = <<>>

WlListNext ==
    \/ WlListFetch
    \/ WlListFilter
    \/ WlListDetail
    \/ WlListFinish

SpecListWl == WlListInit /\ [][WlListNext]_vars

\* workload w of the management system matches the name, id and type filters
C25_MatchesFilters(w) ==
    /\ Matches(args.name, w.name)
    /\ Matches(args.id, w._id)
    /\ (args.type = None \/ args.type = w.type)

\* C25: with the --disabled option the disabled workloads that match the
\* name, id and type filters are in the final result (stated for calls
\* without a version_name filter, which drops workloads of its own); without
\* the option no disabled workload is in the result.
C25_DisabledOption ==
    (cmd = "list_workloads" /\ pc = "done") =>
      /\ (args.disabled /\ args.version_name = None) =>
            \A k \in 1..Len(server.workloads) :
               (server.workloads[k].disabled /\ C25_MatchesFilters(server.workloads[k]))
                 => \E j \in 1..Len(ret) : ret[j]._id = server.workloads[k]._id
      /\ ~args.disabled => \A j \in 1..Len(ret) : ~ret[j].disabled

\* ------------------------------------------------------------------------
\* The reboot_nodes and start/stop/restart commands
\* ------------------------------------------------------------------------

\* the answers a user gives to the confirmation prompt
Answers == {"y", "Y", "n", ""}

\* str.lower on the answers
str_lower(answer) == IF answer = "Y" THEN "y" ELSE answer

\* a workload entry of the input file as create_wl_list_from_wl_list reads it
AsPartialWl(wl) ==
    PartialWl(DictGet(wl, "device_id"), DictGet(wl, "name"), DictGet(wl, "version_name"))

\* a node entry of the input file as create_node_list_from_node_list reads it
AsPartial(node) ==
    PartialNode(DictGet(node, "serial_number"), DictGet(node, "name"),
                IF "workloads" \in DOMAIN node
                THEN [w \in 1..Len(node.workloads) |-> AsPartialWl(node.workloads[w])]
                ELSE <<>>)

\* the handler calls create_node_list_from_node_list
CallReconciler ==
    /\ cmd' = "create_node_list_from_node_list"
    /\ pc' = "walk"
    /\ stack' = <<>>
    /\ UNCHANGED <<args, server, requests, walk, heap, ret>>

\* handle_reboot_nodes after the file is loaded: are the serial numbers there
RebootLoad ==
    /\ cmd = "handle_reboot_nodes" /\ pc = "load"
    /\ IF all_nodes_have_serial_numbers(args.node_list)
       THEN /\ pc' = "confirm"
            /\ local' = [node_list |-> args.node_list, i |-> 1, count |-> 0]
            /\ UNCHANGED <<cmd, args, server, stack, requests, walk, heap, ret>>
       ELSE CallReconciler /\ UNCHANGED local

\* create_node_list_from_node_list has returned to handle_reboot_nodes
RebootReconciled ==
    /\ cmd = "create_node_list_from_node_list" /\ pc = "done"
    /\ args.handler = "handle_reboot_nodes"
    /\ cmd' = "handle_reboot_nodes"
    /\ local' = [node_list |-> ReconOutput, i |-> 1, count |-> 0]
    /\ pc' = "confirm"
    /\ UNCHANGED <<args, server, stack, requests, walk, heap, ret>>

\* the confirmation asked for when more than one node is to be rebooted
RebootConfirm ==
    /\ cmd = "handle_reboot_nodes" /\ pc = "confirm"
    /\ IF Len(local.node_list) > 1 /\ ~args.yes /\ str_lower(args.answer) # "y"
       THEN pc' = "done"
       ELSE pc' = "loop"
    /\ UNCHANGED <<cmd, args, server, stack, requests, walk, heap, local, ret>>

\* one pass of the loop over the nodes: the message of verbose mode, then
\* reboot_node, whose request the server answers as it likes
RebootNode ==
    /\ cmd = "handle_reboot_nodes" /\ pc = "loop"
    /\ local.i <= Len(local.node_list)
    /\ LET node == local.node_list[local.i]
       IN IF args.verbose /\ missing_keys(node, <<"name", "_id">>) # <<>>
          THEN /\ pc' = "error"
               /\ ret' = Raised("KeyError", <<missing_keys(node, <<"name", "_id">>)[1]>>)
               /\ UNCHANGED <<requests, local>>
          ELSE /\ \E response_ok \in BOOLEAN :
                     /\ requests' = Append(requests,
                                           <<"reboot", node.serial_number, response_ok>>)
                     /\ local' = [local EXCEPT
                                    !.i = @ + 1,
                                    !.count = IF response_ok THEN @ + 1 ELSE @]
               /\ UNCHANGED <<pc, ret>>
    /\ UNCHANGED <<cmd, args, server, stack, walk, heap>>

\* the loop is over
RebootFinish ==
    /\ cmd = "handle_reboot_nodes" /\ pc = "loop"
    /\ local.i > Len(local.node_list)
    /\ pc' = "done"
    /\ UNCHANGED <<cmd, args, server, stack, requests, walk, heap, local, ret>>

\* ------------------------------------------------------------------------
\* Specification SpecReboot: handle_reboot_nodes on input files of at most
\* MaxPartial node entries
\* ------------------------------------------------------------------------

\* node entries of an input file: the serial number alone, an entry as
\* list_nodes writes it, the name alone
RebootEntries ==
    {[serial_number |-> SerialOf(1)],
     [serial_number |-> SerialOf(2), name |-> sB, _id |-> 2],
     [name |-> sA]}

RebootInit ==
    /\ cmd = "handle_reboot_nodes"
    /\ pc = "load"
    /\ server \in ReconServers
    /\ \E node_list \in SeqsUpTo(RebootEntries, MaxPartial),
          verbose \in BOOLEAN, yes \in BOOLEAN, answer \in Answers :
          args = [handler |-> "handle_reboot_nodes", node_list |-> node_list,
                  verbose |-> verbose, yes |-> yes, answer |-> answer,
                  partial_list |-> [k \in 1..Len(node_list) |-> AsPartial(node_list[k])],
                  with_workloads |-> FALSE]
    /\ stack = <<>> /\ requests = <<>> /\ walk = Idle /\ heap = <<>>
    /\ local = [node_list |-> <<>>, i |-> 1, count |-> 0]
    /\ ret = <<>>

RebootNext ==
    \/ RebootLoad
    \/ WalkRoot
    \/ WalkRequest
    \/ WalkLeaf
    \/ ReconStart
    \/ ReconEntry
    \/ ReconFinish
    \/ RebootReconciled
    \/ RebootConfirm
    \/ RebootNode
    \/ RebootFinish

SpecReboot == RebootInit /\ [][RebootNext]_vars

\* the reboot requests made so far
C26_Reboots == SelectSeq(requests, LAMBDA e : e[1] = "reboot")

\* C26: handle_reboot_nodes issues no reboot request when the (reconciled)
\* list holds more than one node, --yes was not given and the answer to the
\* prompt is neither 'y' nor 'Y'; otherwise each node of the list gets
\* exactly one reboot request, in list order, whether or not the reboot of an
\* earlier node failed.
C26_RebootEachNodeOnce ==
    (cmd = "handle_reboot_nodes" /\ pc \in {"done", "error"}) =>
      IF Len(local.node_list) > 1 /\ ~args.yes /\ args.answer \notin {"y", "Y"}
      THEN C26_Reboots = <<>>
      ELSE /\ Len(C26_Reboots) = Len(local.node_list)
           /\ \A i \in 1..Len(C26_Reboots) :
                 C26_Reboots[i][2] = local.node_list[i].serial_number

\* ------------------------------------------------------------------------
\* handle_control_workloads
\* ------------------------------------------------------------------------

\* control_workload for an action and the server's answer to its request
control_workload(action, response_ok) ==
    IF action \notin {"start", "stop", "restart", "force_stop"}
    THEN Raised("ValueError", <<>>)
    ELSE IF ~response_ok THEN Raised("ActionUnsuccessful", <<>>)
    ELSE Returned(None)

\* the loop variables of handle_control_workloads over node_list
ControlLocals(node_list) ==
    [node_list |-> node_list, i |-> 1, j |-> 1, count |-> 0, failed |-> 0]

\* handle_control_workloads after the file is loaded: the two tests that
\* decide whether the list is reconciled
ControlLoad ==
    /\ cmd = "handle_control_workloads" /\ pc = "load"
    /\ IF ~all_nodes_have_serial_numbers(args.node_list)
       THEN CallReconciler /\ UNCHANGED local
       ELSE LET have_ids == all_workloads_have_device_ids(args.node_list)
            IN IF ~have_ids.ok
               THEN /\ pc' = "error" /\ ret' = have_ids
                    /\ UNCHANGED <<cmd, args, server, stack, requests, walk, heap, local>>
               ELSE IF ~have_ids.value
               THEN CallReconciler /\ UNCHANGED local
               ELSE /\ pc' = "confirm"
                    /\ UNCHANGED <<cmd, args, server, stack, requests, walk, heap, local, ret>>

\* create_node_list_from_node_list has returned to handle_control_workloads
ControlReconciled ==
    /\ cmd = "create_node_list_from_node_list" /\ pc = "done"
    /\ args.handler = "handle_control_workloads"
    /\ cmd' = "handle_control_workloads"
    /\ local' = ControlLocals(ReconOutput)
    /\ pc' = "confirm"
    /\ UNCHANGED <<args, server, stack, requests, walk, heap, ret>>

\* the confirmation asked for when the list holds more than one node
ControlConfirm ==
    /\ cmd = "handle_control_workloads" /\ pc = "confirm"
    /\ IF Len(local.node_list) > 1 /\ str_lower(args.answer) # "y"
       THEN pc' = "done" /\ ret' = None
       ELSE pc' = "loop" /\ UNCHANGED ret
    /\ UNCHANGED <<cmd, args, server, stack, requests, walk, heap, local>>

\* the inner loop is over for node i: on to the next node
ControlNextNode ==
    /\ cmd = "handle_control_workloads" /\ pc = "loop"
    /\ local.i <= Len(local.node_list)
    /\ local.j > Len(local.node_list[local.i].workloads)
    /\ local' = [local EXCEPT !.i = @ + 1, !.j = 1]
    /\ UNCHANGED <<cmd, pc, args, server, stack, requests, walk, heap, ret>>

\* one pass of the inner loop: control_workload for workload j of node i
ControlWorkload ==
    /\ cmd = "handle_control_workloads" /\ pc = "loop"
    /\ local.i <= Len(local.node_list)
    /\ local.j <= Len(local.node_list[local.i].workloads)
    /\ LET node == local.node_list[local.i]
           wl == node.workloads[local.j]
       IN \E response_ok \in BOOLEAN :
             LET out == control_workload(args.action, response_ok)
             IN /\ requests' = Append(requests,
                                      <<"control", args.action, node.serial_number,
                                        wl.device_id, response_ok>>)
                /\ local' = [local EXCEPT
                               !.j = @ + 1,
                               !.count = IF out.ok THEN @ + 1 ELSE @,
                               !.failed = IF out.ok THEN @ ELSE @ + 1]
    /\ UNCHANGED <<cmd, pc, args, server, stack, walk, heap, ret>>

\* the outer loop is over: handle_control_workloads returns count
ControlFinish ==
    /\ cmd = "handle_control_workloads" /\ pc = "loop"
    /\ local.i > Len(local.node_list)
    /\ pc' = "done" /\ ret' = Returned(local.count)
    /\ UNCHANGED <<cmd, args, server, stack, requests, walk, heap, local>>

\* ------------------------------------------------------------------------
\* Specification SpecControl: handle_control_workloads on input files of at
\* most MaxPartial node entries
\* ------------------------------------------------------------------------

\* node entries of an input file: with the device ids of their workloads,
\* with no workloads, without the key 'workloads', with a workload given by
\* name, and a node given by name
ControlEntries ==
    {[serial_number |-> SerialOf(1),
      workloads |-> <<[device_id |-> wlDocker.device_id], [device_id |-> wlVm.device_id]>>],
     [serial_number |-> SerialOf(2), workloads |-> <<>>],
     [serial_number |-> SerialOf(2)],
     [serial_number |-> SerialOf(1), workloads |-> <<[name |-> sB]>>],
     [name |-> sA, workloads |-> <<[name |-> sA]>>]}

ControlInit ==
    /\ cmd = "handle_control_workloads"
    /\ pc = "load"
    /\ server \in ReconServers
    /\ \E node_list \in SeqsUpTo(ControlEntries, MaxPartial),
          action \in {"start", "force_stop"}, answer \in Answers :
          /\ args = [handler |-> "handle_control_workloads", action |-> action,
                     node_list |-> node_list, answer |-> answer,
                     partial_list |-> [k \in 1..Len(node_list) |-> AsPartial(node_list[k])],
                     with_workloads |-> TRUE]
          /\ local = ControlLocals(node_list)
    /\ stack = <<>> /\ requests = <<>> /\ walk = Idle /\ heap = <<>>
    /\ ret = <<>>

ControlNext ==
    \/ ControlLoad
    \/ WalkRoot
    \/ WalkRequest
    \/ WalkLeaf
    \/ ReconStart
    \/ ReconEntry
    \/ ReconFinish
    \/ ControlReconciled
    \/ ControlConfirm
    \/ ControlNextNode
    \/ ControlWorkload
    \/ ControlFinish

SpecControl == ControlInit /\ [][ControlNext]_vars

\* the control requests made so far
C27_Controls == SelectSeq(requests, LAMBDA e : e[1] = "control")

\* the workload entries of a node entry
C27_WorkloadsOf(node) == IF "workloads" \in DOMAIN node THEN node.workloads ELSE <<>>

RECURSIVE C27_Entries(_, _)
\* the pairs of serial number and device id of the workload entries of
\* node_list from node i on, in list order
C27_Entries(node_list, i) ==
    IF i > Len(node_list) THEN <<>>
    ELSE [j \in 1..Len(C27_WorkloadsOf(node_list[i])) |->
             <<node_list[i].serial_number, C27_WorkloadsOf(node_list[i])[j].device_id>>]
         \o C27_Entries(node_list, i + 1)

\* C27: handle_control_workloads sends exactly one control request per
\* workload entry of the node list, in list order; a request that fails with
\* ActionUnsuccessful is counted as failed and the remaining requests are
\* still sent; at the end count + failed is the number of workload entries
\* and count, the number of successful requests, is returned.  With more
\* than one node in the list and an answer other than 'y', no control
\* request is sent.
C27_ControlEachWorkloadOnce ==
    (cmd = "handle_control_workloads" /\ pc \in {"done", "error"}) =>
      IF Len(local.node_list) > 1 /\ args.answer \notin {"y", "Y"}
      THEN C27_Controls = <<>>
      ELSE LET entries == C27_Entries(local.node_list, 1)
           IN /\ Len(C27_Controls) = Len(entries)
              /\ \A k \in 1..Len(entries) :
                    /\ C27_Controls[k][3] = entries[k][1]
                    /\ C27_Controls[k][4] = entries[k][2]
              /\ local.count + local.failed = Len(entries)
              /\ local.count = Cardinality({k \in 1..Len(C27_Controls) : C27_Controls[k][5]})
              /\ ret = Returned(local.count)

\* ------------------------------------------------------------------------
\* The session: login, logout and the requests made with the stored session
\* ------------------------------------------------------------------------
Url == <<"h", "t", "t", "p", ":", "/", "/", "m", "s">>
NoSchemaUrl == <<"m", "s">>

\* requests accepts the URL: it names a scheme
HasSchema(url) == Len(url) >= 4 /\ SubSeq(url, 1, 4) = <<"h", "t", "t", "p">>

\* the content of the session file as load_session_id returns it
Session(session_id, base_url) == [sessionid |-> session_id, baseurl |-> base_url]

\* load_session_id when the file has no section 'Session'
NoSession == Session(None, None)

\* save_session_id: the file afterwards; configparser refuses a value that
\* is not a string and the file is left as it was
save_session_id(session_id, base_url, file) ==
    IF session_id = None \/ base_url = None
    THEN [result |-> Raised("TypeError", <<>>), file |-> file]
    ELSE [result |-> Returned(None), file |-> Session(session_id, base_url)]

\* what the server does with a request: it gives no answer, or it answers
\* with an HTTP status
NoAnswer == 0
Statuses == {200, 401, 500}

\* make_request that sends the request whatever is stored
make_request_unchecked(file, answer) ==
    IF answer = NoAnswer
    THEN [sent |-> TRUE, result |-> Raised("ConnectionError", <<>>)]
    ELSE [sent |-> TRUE, result |-> Returned(answer)]

\* make_request: the request is sent only with a session id and a base URL
\* stored, and the response is returned whatever its status
make_request(file, answer) ==
    IF ~Truthy(file.sessionid) \/ ~Truthy(file.baseurl)
    THEN [sent |-> FALSE, result |-> Raised("ActionUnsuccessful", <<"Please log in.">>)]
    ELSE IF answer = NoAnswer
    THEN [sent |-> TRUE, result |-> Raised("ConnectionError", <<>>)]
    ELSE [sent |-> TRUE, result |-> Returned(answer)]

\* login: the server answers answer and, with status 200, names session_id
login(base_url, answer, session_id, file) ==
    IF ~HasSchema(base_url)
    THEN [sent |-> FALSE, file |-> file,
          result |-> Raised("ActionUnsuccessful", <<"Invalid URL provided.">>)]
    ELSE IF answer = NoAnswer
    THEN [sent |-> TRUE, file |-> file,
          result |-> Raised("ActionUnsuccessful", <<"Failed to connect to the server.">>)]
    ELSE IF answer = 200
    THEN LET saved == save_session_id(session_id, base_url, file)
         IN [sent |-> TRUE, file |-> saved.file,
             result |-> IF saved.result.ok THEN Returned(session_id) ELSE saved.result]
    ELSE IF answer = 403
    THEN [sent |-> TRUE, file |-> file,
          result |-> Raised("ActionUnsuccessful", <<"Invalid credentials provided.">>)]
    ELSE [sent |-> TRUE, file |-> file,
          result |-> Raised("ActionUnsuccessful", <<"Server responded:">>)]

\* logout
logout(file, answer) ==
    LET response == make_request(file, answer)
    IN IF ~response.result.ok /\ response.result.exception = "ActionUnsuccessful"
       THEN [sent |-> response.sent, file |-> file,
             result |-> Raised("ActionUnsuccessful", <<"Logout failed.">>)]
       ELSE IF ~response.result.ok
       THEN [sent |-> response.sent, file |-> file, result |-> response.result]
       ELSE [sent |-> response.sent,
             file |-> save_session_id(<<>>, <<>>, file).file,
             result |-> Returned(None)]

\* the record kept of the operation made last
LastOp(op, before, sent, answer, ops) ==
    [op |-> op, before |-> before, sent |-> sent, answer |-> answer, ops |-> ops]

\* the login command
SessionLogin ==
    /\ cmd = "session" /\ local.ops < MaxOps
    /\ \E base_url \in {Url, NoSchemaUrl}, answer \in {NoAnswer, 200, 403, 500},
          session_id \in {s1, s2, None} :
          LET out == login(base_url, answer, session_id, heap)
          IN /\ heap' = out.file
             /\ ret' = out.result
             /\ requests' = IF out.sent THEN Append(requests, <<"login", answer>>)
                            ELSE requests
             /\ local' = LastOp("login", heap, out.sent, answer, local.ops + 1)
    /\ UNCHANGED <<cmd, pc, args, server, stack, walk>>

\* the logout command
SessionLogout ==
    /\ cmd = "session" /\ local.ops < MaxOps
    /\ \E answer \in {NoAnswer} \cup Statuses :
          LET out == logout(heap, answer)
          IN /\ heap' = out.file
             /\ ret' = out.result
             /\ requests' = IF out.sent THEN Append(requests, <<"logout", answer>>)
                            ELSE requests
             /\ local' = LastOp("logout", heap, out.sent, answer, local.ops + 1)
    /\ UNCHANGED <<cmd, pc, args, server, stack, walk>>

\* any other operation of the API: its call of make_request
SessionRequest ==
    /\ cmd = "session" /\ local.ops < MaxOps
    /\ \E answer \in {NoAnswer} \cup Statuses :
          LET out == make_request(heap, answer)
          IN /\ ret' = out.result
             /\ requests' = IF out.sent THEN Append(requests, <<"api", answer>>)
                            ELSE requests
             /\ local' = LastOp("api", heap, out.sent, answer, local.ops + 1)
    /\ UNCHANGED <<cmd, pc, args, server, stack, walk, heap>>

\* ------------------------------------------------------------------------
\* Specification SpecSession: at most MaxOps logins, logouts and requests,
\* starting with or without a stored session
\* ------------------------------------------------------------------------
SessionInit ==
    /\ cmd = "session" /\ pc = "idle"
    /\ heap \in {NoSession, Session(s1, Url)}
    /\ local = LastOp("none", heap, FALSE, NoAnswer, 0)
    /\ requests = <<>>
    /\ args = Idle /\ server = Idle /\ stack = Idle /\ walk = Idle
    /\ ret = Returned(None)

SessionNext ==
    \/ SessionLogin
    \/ SessionLogout
    \/ SessionRequest

SpecSession == SessionInit /\ [][SessionNext]_vars

\* a session id and a base URL are stored in file
C22_Stored(file) ==
    /\ file.sessionid # None /\ file.sessionid # <<>>
    /\ file.baseurl # None /\ file.baseurl # <<>>

\* C22: make_request sends no HTTP request and raises
\* ActionUnsuccessful('Please log in.') whenever no session id or no base URL
\* is stored (logout turns this into its own ActionUnsuccessful); a logout
\* that succeeded leaves nothing stored, what is stored changes from nothing
\* to something only by a successful login, and a failed login stores
\* nothing new.
C22_NoSessionNoRequest ==
    [][/\ (local'.op \in {"api", "logout"} /\ ~C22_Stored(heap)) =>
             /\ requests' = requests
             /\ ~ret'.ok /\ ret'.exception = "ActionUnsuccessful"
             /\ local'.op = "api" => ret'.keys = <<"Please log in.">>
             /\ heap' = heap
       /\ (local'.op = "logout" /\ ret'.ok) => ~C22_Stored(heap')
       /\ (~C22_Stored(heap) /\ C22_Stored(heap')) => (local'.op = "login" /\ ret'.ok)
       /\ (local'.op = "login" /\ ~ret'.ok) => heap' = heap]_vars

\* after a logout that the server accepted, a request of the API was refused
\* without being sent
C22_Witness ==
    /\ cmd = "session"
    /\ requests = <<<<"logout", 200>>>>
    /\ local.op = "api" /\ local.ops = 2 /\ ~local.sent
    /\ heap = Session(<<>>, <<>>)
    /\ ret = Raised("ActionUnsuccessful", <<"Please log in.">>)

\* C23: logout raises ActionUnsuccessful when the server's response indicates
\* that the logout was unsuccessful (any status other than success), and the
\* stored session id is cleared only when the logout succeeded; after an
\* unsuccessful logout the stored session id and base URL are unchanged.
C23_LogoutFailureKeepsSession ==
    (cmd = "session" /\ local.op = "logout") =>
      /\ (local.sent /\ local.answer \in Statuses \ {200}) =>
            /\ ~ret.ok /\ ret.exception = "ActionUnsuccessful"
            /\ heap = local.before
      /\ heap # local.before => (local.sent /\ local.answer = 200)
====
